---- MODULE Spec2Model ----
(***************************************************************************)
(* Account-link challenge protocol and trade validation of polybot.        *)
(*                                                                         *)
(* SpecLink      the chat commands connect account and verify over the     *)
(*               in-memory challenge store and link store; every await of  *)
(*               a handler is a separate step, so handlers interleave.     *)
(* SpecStore     persistLink, getLinkedAccount and unlink calls of the     *)
(*               link persistence layer, from any caller.                  *)
(* SpecValidate  the WRITE handler's validation of one parsed intent       *)
(*               against one validation context.                           *)
(* SpecTrade     routeMessage for one message after another: classify,     *)
(*               parse, validate, build the trade request, place the       *)
(*               trade.                                                    *)
(* SpecAuth      the auth server's link sessions: /api/session,            *)
(*               /api/challenge, /api/verify, /api/setup-trading.          *)
(* SpecOutage    the chat commands while the challenge store or the link   *)
(*               store is unavailable.                                     *)
(* SpecIdentities  the challenge and link stores under commands of         *)
(*               several identities, unlink included.                      *)
(* SpecLimits    the spend ledger: trySpend and getRemainingToday across   *)
(*               UTC days.                                                 *)
(* SpecGateway   executeTradeForAccount and the per-user client cache,     *)
(*               interleaved with /api/setup-trading.                      *)
(* SpecParse     parseIntent for one extractor response after another.     *)
(***************************************************************************)
EXTENDS Integers, Sequences, FiniteSets, TLC

VARIABLES
    byDiscordUserId,  \* challenge store: Map<DiscordUserId, AccountLinkChallenge>
    ownerByNonce,     \* challenge store: Map<nonce, DiscordUserId>
    links,            \* link store: Map<DiscordUserId, {accountId, linkedAtMs}>
    nowMs,            \* Date.now()
    ticks,            \* number of clock advances so far
    nextNonce,        \* next value of crypto.randomUUID()
    calls,            \* in-flight command handlers
    issued,           \* history: every challenge ever issued, as issued
    linkedCount,      \* history: successful verifyLink returns per nonce
    linkedAccount,    \* history: identity -> account of its last link write, NoAccount after an unlink
    connect,          \* the reply of the last connect account command
    shown,            \* history: nonce -> the message connect account showed for it
    write,            \* the WRITE handler's one request (SpecValidate)
    parse,            \* the parseIntent call in flight (SpecParse)
    route,            \* the routeMessage call in flight (SpecTrade)
    spendLedger,      \* limits: Map<DiscordUserId, Map<dayKey, cents spent>>
    spend,            \* the last call answered by the limits module
    executedCents,    \* history: identity -> cents of its trades that succeeded today
    lastRequest,      \* history: the TradeRequest built before the current one
    validations,      \* history: every validateAgentOutput call, with its arguments and result
    placedOrders,     \* history: every order the gateway placed, with its idempotencyKey
    credentialStore,  \* gateway: whether the per-user credential store was constructed
    credentials,      \* credential store: user -> version of the stored credentials, 0 for no row
    userClientCache,  \* gateway: Map<DiscordUserId, { client, createdAtMs }>
    trade,            \* gateway: the executeTradeForAccount call in flight
    setup,            \* auth server: the credential part of /api/setup-trading in flight
    sessions,         \* auth server: Map<sessionId, LinkSession>
    nextSessionId,    \* auth server: next value of crypto.randomUUID()
    persisted,        \* history: every persistLink of the auth server, with the signer proven
    markedUsed,       \* history: the sessionIds a request has marked used
    response          \* auth server: the last HTTP response

vars == <<byDiscordUserId, ownerByNonce, links, nowMs, ticks, nextNonce,
          calls, issued, linkedCount, linkedAccount, connect, shown, write,
          parse, route, spendLedger, spend, executedCents, lastRequest, validations,
          placedOrders, credentialStore, credentials, userClientCache, trade, setup,
          sessions, nextSessionId, persisted, markedUsed, response>>

gatewayVars == <<credentialStore, credentials, userClientCache, trade, setup>>

tradeVars == <<route, spendLedger, spend, executedCents, lastRequest, validations,
               placedOrders,
              gatewayVars>>

authVars == <<sessions, nextSessionId, persisted, markedUsed, response>>

linkVars == <<byDiscordUserId, ownerByNonce, links, nowMs, ticks, nextNonce,
              calls, issued, linkedCount, linkedAccount, connect, shown>>

-----------------------------------------------------------------------------
(* Bounds *)

MaxCalls == 2
MaxNonces == 2
MaxTicks == 1
MaxCents == 4

MaxDays == 2

MaxCredentials == 2
MaxWords == 2
MaxMessages == 2
MaxSessions == 2

-----------------------------------------------------------------------------
(* Values *)

Users == {"u1", "u2"}

\* Addresses as recovered from a signature (checksummed).
Wallets == {"0xAa", "0xBb"}

\* Addresses as typed in the verify command.
Accounts == {"0xaa", "0xbb"}

NoAccount == "null"

CHALLENGE_TTL_MS == 300000

\* The clock advances to a challenge's expiry instant or just past it.
TickSteps == {CHALLENGE_TTL_MS, CHALLENGE_TTL_MS + 1}

Nonces == 1..MaxNonces

NoNonce == 0

NoChallenge ==
    [discordUserId |-> "null", nonce |-> NoNonce, issuedAtMs |-> 0,
     expiresAtMs |-> 0, used |-> FALSE]

NoMessage == [discordUserId |-> "null", nonce |-> NoNonce, expiresAtMs |-> 0]

MalformedSignature == [signer |-> "null", message |-> NoMessage]

toLowerCase(address) ==
    CASE address = "0xAa" -> "0xaa"
      [] address = "0xBb" -> "0xbb"
      [] OTHER -> address

-----------------------------------------------------------------------------
(* JavaScript Map, as a set of [key, value] entries *)

MapHas(map, key) == \E e \in map : e.key = key

MapGet(map, key, null) ==
    IF MapHas(map, key) THEN (CHOOSE e \in map : e.key = key).value ELSE null

MapSet(map, key, value) ==
    {e \in map : e.key # key} \cup {[key |-> key, value |-> value]}

MapDelete(map, key) == {e \in map : e.key # key}

-----------------------------------------------------------------------------
(* InMemoryAccountLinkChallengeStore *)

\* Faulty variant: an identity's existing challenge is kept.
create_byDiscordUserId_keepFirst(map, challenge) ==
    IF MapHas(map, challenge.discordUserId) THEN map
    ELSE MapSet(map, challenge.discordUserId, challenge)

\* Faulty variant: the new challenge is stored next to the identity's
\* previous one.
create_byDiscordUserId_append(map, challenge) ==
    map \cup {[key |-> challenge.discordUserId, value |-> challenge]}

create_byDiscordUserId(map, challenge) ==
    MapSet(map, challenge.discordUserId, challenge)

create_ownerByNonce(map, challenge) ==
    MapSet(map, challenge.nonce, challenge.discordUserId)

getActive(discordUserId) == MapGet(byDiscordUserId, discordUserId, NoChallenge)

\* Faulty variant: the used flag is never written.
markUsed_noop(nonce) == byDiscordUserId

\* Faulty variant: marking a challenge that is already used removes it.
markUsed_removesUsed(nonce) ==
    LET owner == MapGet(ownerByNonce, nonce, "null") IN
    IF owner = "null" THEN byDiscordUserId
    ELSE LET challenge == MapGet(byDiscordUserId, owner, NoChallenge) IN
         IF challenge = NoChallenge THEN byDiscordUserId
         ELSE IF challenge.used THEN MapDelete(byDiscordUserId, owner)
         ELSE MapSet(byDiscordUserId, owner, [challenge EXCEPT !.used = TRUE])

\* Faulty variant: the used flag is flipped, not set.
markUsed_toggle(nonce) ==
    LET owner == MapGet(ownerByNonce, nonce, "null") IN
    IF owner = "null" THEN byDiscordUserId
    ELSE LET challenge == MapGet(byDiscordUserId, owner, NoChallenge) IN
         IF challenge = NoChallenge THEN byDiscordUserId
         ELSE MapSet(byDiscordUserId, owner, [challenge EXCEPT !.used = ~@])

\* Faulty variant: every stored challenge is marked, whoever owns the nonce.
markUsed_everyChallenge(nonce) ==
    IF ~MapHas(ownerByNonce, nonce) THEN byDiscordUserId
    ELSE {[key |-> e.key, value |-> [e.value EXCEPT !.used = TRUE]] : e \in byDiscordUserId}

markUsed(nonce) ==
    LET owner == MapGet(ownerByNonce, nonce, "null") IN
    IF owner = "null" THEN byDiscordUserId
    ELSE LET challenge == MapGet(byDiscordUserId, owner, NoChallenge) IN
         IF challenge = NoChallenge THEN byDiscordUserId
         ELSE MapSet(byDiscordUserId, owner, [challenge EXCEPT !.used = TRUE])

-----------------------------------------------------------------------------
(* InMemoryAccountLinkStore *)

\* Faulty variant: a link is added next to the identity's existing one.
link_append(map, discordUserId, polymarketAccountId, linkedAtMs) ==
    map \cup {[key |-> discordUserId,
               value |-> [accountId |-> polymarketAccountId, linkedAtMs |-> linkedAtMs]]}

\* Faulty variant: an identity's existing link is kept.
link_keepExisting(map, discordUserId, polymarketAccountId, linkedAtMs) ==
    IF MapHas(map, discordUserId) THEN map
    ELSE MapSet(map, discordUserId,
                [accountId |-> polymarketAccountId, linkedAtMs |-> linkedAtMs])

link(map, discordUserId, polymarketAccountId, linkedAtMs) ==
    MapSet(map, discordUserId,
           [accountId |-> polymarketAccountId, linkedAtMs |-> linkedAtMs])

NoLink == [accountId |-> NoAccount, linkedAtMs |-> 0]

getLinkedAccount(map, discordUserId) == MapGet(map, discordUserId, NoLink).accountId

\* Faulty variant: nothing is removed.
unlink_noop(map, discordUserId) == map

unlink(map, discordUserId) == MapDelete(map, discordUserId)

-----------------------------------------------------------------------------
(* AccountLinkChallengeService, AccountLinkVerificationService *)

issueChallenge(discordUserId, now, nonce) ==
    [discordUserId |-> discordUserId, nonce |-> nonce, issuedAtMs |-> now,
     expiresAtMs |-> now + CHALLENGE_TTL_MS, used |-> FALSE]

\* Faulty variant: the expiry instant itself is already invalid.
isValid_strictlyBefore(challenge, nonce, now) ==
    /\ challenge # NoChallenge
    /\ challenge.nonce = nonce
    /\ ~challenge.used
    /\ now < challenge.expiresAtMs

isValid(challenge, nonce, now) ==
    /\ challenge # NoChallenge
    /\ challenge.nonce = nonce
    /\ ~challenge.used
    /\ now <= challenge.expiresAtMs

buildSignedLinkMessage(challenge) ==
    [discordUserId |-> challenge.discordUserId, nonce |-> challenge.nonce,
     expiresAtMs |-> challenge.expiresAtMs]

\* What issueChallenge returns: the stored challenge, or the typed error when
\* the store write failed.
issueSucceeded(challenge) == [ok |-> TRUE, errorCode |-> "none", challenge |-> challenge]

issueFailed == [ok |-> FALSE, errorCode |-> "STORE_UNAVAILABLE", challenge |-> NoChallenge]

\* No connect account command has been answered yet.
NoConnect ==
    [discordUserId |-> "null", ok |-> FALSE, errorCode |-> "none", nonce |-> NoNonce,
     message |-> NoMessage, reply |-> "none"]

\* Faulty variant: the result of issueChallenge is not looked at.
handleConnectAccountReply_ignoresFailure(discordUserId, issuance) ==
    [discordUserId |-> discordUserId, ok |-> TRUE, errorCode |-> "none",
     nonce |-> issuance.challenge.nonce,
     message |-> buildSignedLinkMessage(issuance.challenge),
     reply |-> "sign"]

\* Faulty variant: the message shown leaves out the expiry.
handleConnectAccountReply_withoutExpiry(discordUserId, issuance) ==
    IF ~issuance.ok
    THEN [NoConnect EXCEPT !.discordUserId = discordUserId,
                           !.errorCode = issuance.errorCode,
                           !.reply = "could_not_start"]
    ELSE [discordUserId |-> discordUserId, ok |-> TRUE, errorCode |-> "none",
          nonce |-> issuance.challenge.nonce,
          message |-> [buildSignedLinkMessage(issuance.challenge) EXCEPT !.expiresAtMs = 0],
          reply |-> "sign"]

\* handleConnectAccount: the failure text, or the verify instructions with the
\* nonce and the message to sign.
handleConnectAccountReply(discordUserId, issuance) ==
    IF ~issuance.ok
    THEN [NoConnect EXCEPT !.discordUserId = discordUserId,
                           !.errorCode = issuance.errorCode,
                           !.reply = "could_not_start"]
    ELSE [discordUserId |-> discordUserId, ok |-> TRUE, errorCode |-> "none",
          nonce |-> issuance.challenge.nonce,
          message |-> buildSignedLinkMessage(issuance.challenge),
          reply |-> "sign"]

\* EIP-191 recovery: the signer when the signature is over this very message,
\* an unrelated address for any other message, an error for a malformed one.
recoverSigner(message, signature) ==
    IF signature = MalformedSignature THEN "error"
    ELSE IF signature.message = message THEN signature.signer
    ELSE "0xunrelated"

verifyLinkCheck(challenge, nonce, claimedAccount, signature, now) ==
    IF ~isValid(challenge, nonce, now) THEN "CHALLENGE_INVALID"
    ELSE LET recovered == recoverSigner(buildSignedLinkMessage(challenge), signature) IN
         IF recovered = "error" \/ toLowerCase(recovered) # toLowerCase(claimedAccount)
         THEN "SIGNATURE_MISMATCH"
         ELSE "ok"

-----------------------------------------------------------------------------
(* Calls *)

Calls == 1..MaxCalls

IdleCall ==
    [op |-> "none", pc |-> "idle", discordUserId |-> "null",
     polymarketAccountId |-> NoAccount, nonce |-> NoNonce,
     signature |-> MalformedSignature, nowMs |-> 0, challenge |-> NoChallenge,
     verification |-> "none", reply |-> "none",
     latestAtStart |-> FALSE, consumedAtStart |-> FALSE,
     priorAccount |-> NoAccount]

\* Call slots are interchangeable: a new call takes the lowest idle one.
FreeSlot(p) ==
    /\ calls[p].pc = "idle"
    /\ \A q \in Calls : q < p => calls[q].pc # "idle"

\* A finished handler only has its reply left to send, which touches nothing
\* shared; that step is taken before any other.
Quiescent == \A p \in Calls : calls[p].pc # "done"

\* The most recently issued nonce of an identity, from the history.
LatestNonce(discordUserId) ==
    LET own == {c.nonce : c \in {d \in issued : d.discordUserId = discordUserId}} IN
    IF own = {} THEN NoNonce ELSE CHOOSE n \in own : \A m \in own : m <= n

IssuedChallenge(nonce) ==
    IF \E c \in issued : c.nonce = nonce
    THEN CHOOSE c \in issued : c.nonce = nonce
    ELSE NoChallenge

Saturate(n) == IF n >= 2 THEN 2 ELSE n

-----------------------------------------------------------------------------
(* WRITE pipeline: handleWrite, validateAgentOutput *)

MarketIds == {"m1", "m2"}

MarketStatuses == {"active", "paused", "closed"}

NoMarket == [id |-> "null", status |-> "null"]

\* Amounts a parsed intent can carry: whole cents from -1 to MaxCents, or
\* such a number of cents plus a fraction of a cent.
NoAgentOutput ==
    [intent |-> "null", marketId |-> "null", amountCents |-> 0, amountIsInteger |-> TRUE]

AgentOutputs ==
    {[intent |-> "place_bet", marketId |-> m, amountCents |-> a, amountIsInteger |-> i] :
        m \in MarketIds, a \in -1..MaxCents, i \in BOOLEAN}
    \cup {[NoAgentOutput EXCEPT !.intent = "get_balance"]}

NoValidationContext ==
    [polymarketAccountId |-> NoAccount,
     marketLookup |-> [m \in MarketIds |-> NoMarket],
     dailyLimitCents |-> 0, spentTodayCents |-> 0,
     hourlyLimitCents |-> 0, spentThisHourCents |-> 0,
     minOrderCents |-> 1, maxOrderCents |-> 1]

\* What buildValidationContext can hand to the router: linked or not, a market
\* lookup that knows every market as active or none at all, spend within the
\* daily limit, and the order-size window of the amount check.
ValidationContexts ==
    {[polymarketAccountId |-> a,
      marketLookup |-> l,
      dailyLimitCents |-> d, spentTodayCents |-> s,
      hourlyLimitCents |-> h, spentThisHourCents |-> sh,
      minOrderCents |-> lo, maxOrderCents |-> hi] :
        a \in {NoAccount, "0xaa"},
        l \in {[m \in MarketIds |-> NoMarket],
               [m \in MarketIds |-> [id |-> m, status |-> "active"]]},
        d \in 0..MaxCents, s \in 0..MaxCents,
        h \in {1, MaxCents}, sh \in {0, 1},
        lo \in {1, 2}, hi \in {MaxCents - 1, MaxCents}}

\* readService.getMarketById(marketId): the market with its status, or null.
ResolvedMarkets(marketId) ==
    {NoMarket} \cup {[id |-> marketId, status |-> st] : st \in MarketStatuses}

\* Faulty variant: the resolved market is ignored.
marketLookup_base(baseValidationContext, agentOutput, resolvedMarket, marketId) ==
    baseValidationContext.marketLookup[marketId]

\* handleWrite's override of the context's marketLookup.
marketLookup(baseValidationContext, agentOutput, resolvedMarket, marketId) ==
    IF marketId # agentOutput.marketId
    THEN baseValidationContext.marketLookup[marketId]
    ELSE IF resolvedMarket = NoMarket THEN NoMarket
    ELSE [id |-> resolvedMarket.id, status |-> resolvedMarket.status]

validationContext(baseValidationContext, agentOutput, resolvedMarket) ==
    [baseValidationContext EXCEPT
       !.marketLookup =
          [m \in MarketIds |->
             marketLookup(baseValidationContext, agentOutput, resolvedMarket, m)]]

amountIsValid(agentOutput, context) ==
    /\ agentOutput.amountIsInteger
    /\ agentOutput.amountCents > 0
    /\ agentOutput.amountCents >= context.minOrderCents
    /\ agentOutput.amountCents <= context.maxOrderCents

\* Faulty variant: spending exactly up to a limit is refused.
exceedsLimit_atLimit(agentOutput, context) ==
    \/ context.spentTodayCents + agentOutput.amountCents >= context.dailyLimitCents
    \/ context.spentThisHourCents + agentOutput.amountCents >= context.hourlyLimitCents

exceedsLimit(agentOutput, context) ==
    \/ context.spentTodayCents + agentOutput.amountCents > context.dailyLimitCents
    \/ context.spentThisHourCents + agentOutput.amountCents > context.hourlyLimitCents

\* Faulty variant: the answer depends on how many messages were routed
\* before, which is no part of the arguments.
validateAgentOutput_remembers(agentOutput, context) ==
    IF context.polymarketAccountId = NoAccount THEN "ACCOUNT_NOT_CONNECTED"
    ELSE LET market == context.marketLookup[agentOutput.marketId] IN
         IF market = NoMarket THEN "INVALID_MARKET"
         ELSE IF market.status # "active" THEN "MARKET_NOT_ACTIVE"
         ELSE IF ~amountIsValid(agentOutput, context) THEN "INVALID_AMOUNT"
         ELSE IF exceedsLimit(agentOutput, context) \/ route.seq > 1 THEN "LIMIT_EXCEEDED"
         ELSE "ok"

validateAgentOutput(agentOutput, context) ==
    IF agentOutput.intent # "place_bet" THEN "NOT_ACTIONABLE"
    ELSE IF context.polymarketAccountId = NoAccount THEN "ACCOUNT_NOT_CONNECTED"
    ELSE LET market == context.marketLookup[agentOutput.marketId] IN
         IF market = NoMarket THEN "INVALID_MARKET"
         ELSE IF market.status # "active" THEN "MARKET_NOT_ACTIVE"
         ELSE IF ~amountIsValid(agentOutput, context) THEN "INVALID_AMOUNT"
         ELSE IF exceedsLimit(agentOutput, context) THEN "LIMIT_EXCEEDED"
         ELSE "ok"

-----------------------------------------------------------------------------
(* routeMessage: classifyMessageIntent, parseIntent, buildValidationContext,
   buildTradeRequest, UserAccountTrader.placeTrade, the execution gateway *)

DAILY_LIMIT_CENTS == 500

HOURLY_LIMIT_CENTS == 500

POLYMARKET_MIN_ORDER_CENTS == 500

TIME_BUCKET_MS == 300000

\* The clock advances to the last instant of a time bucket or to the first of
\* the next.
BucketSteps == {TIME_BUCKET_MS - 1, TIME_BUCKET_MS}

\* A message is a sequence of words: trade verbs, money amounts, other text.
TradeVerbs == {"buy", "bet", "sell", "place"}

MoneyReferences == {"$5"}

Words == {"buy", "$5", "hello"}

Messages == UNION {[1..n -> Words] : n \in 0..MaxWords}

\* Faulty variant: a trade verb alone makes a message a WRITE.
classifyMessageIntent_verbOnly(message) ==
    IF \E i \in DOMAIN message : message[i] \in TradeVerbs
    THEN "WRITE"
    ELSE "READ"

classifyMessageIntent(message) ==
    IF /\ \E i \in DOMAIN message : message[i] \in TradeVerbs
       /\ \E i \in DOMAIN message : message[i] \in MoneyReferences
    THEN "WRITE"
    ELSE "READ"

TradeAmounts == {0, 250, 500, 501}

\* The intents of SUPPORTED_INTENTS other than place_bet.
NonTradeIntents == {"get_balance", "get_trade_history", "query_market"}

\* No usable output of the extractor: no reply, malformed JSON, null, or a
\* shape isAgentOutput rejects.
NoRawOutput ==
    [intent |-> "null", userId |-> "null", marketId |-> "null", outcome |-> "null",
     amountCents |-> 0, amountIsInteger |-> TRUE]

\* What the untrusted extractor can answer: nothing usable, or a well-shaped
\* output naming any user.
RawOutputs ==
    {NoRawOutput}
    \cup {[NoRawOutput EXCEPT !.intent = "place_bet", !.userId = u, !.marketId = "m1",
                               !.outcome = "YES", !.amountCents = a] :
             u \in Users, a \in TradeAmounts}
    \cup {[NoRawOutput EXCEPT !.intent = i, !.userId = u] :
             i \in NonTradeIntents, u \in Users}

\* Faulty variant: the echoed userId is trusted.
parseIntent_trusting(parsed, userId) == parsed

\* parseIntent after the extractor has answered: null unless the output is
\* usable and echoes the caller's id.
parseIntent(parsed, userId) ==
    IF parsed = NoRawOutput THEN NoRawOutput
    ELSE IF parsed.userId # userId THEN NoRawOutput
    ELSE parsed

-----------------------------------------------------------------------------
(* parseIntent: the extractor's reply as JSON, and the structural check *)

\* JSON values of an object's keys; an absent key reads as undefined.
Undefined == [type |-> "undefined", val |-> ""]

JsonNull == [type |-> "null", val |-> ""]

JsonString(s) == [type |-> "string", val |-> s]

\* A JSON number by its text; JSON.parse reads 1e999 as Infinity.
JsonNumber(s) == [type |-> "number", val |-> s]

\* Number.isFinite
NumberIsFinite(v) == v.type = "number" /\ v.val # "Infinity"

SUPPORTED_INTENTS == {"place_bet", "get_balance", "get_trade_history", "query_market"}

JsonKeys ==
    {"intent", "userId", "marketId", "outcome", "amountCents", "limit", "query",
     "rawText", "extra"}

\* The objects the extractor can answer: every key absent, well typed or badly
\* typed, "extra" standing for any key no variant has.
JsonObjects ==
    {[intent |-> i, userId |-> u, marketId |-> m, outcome |-> o, amountCents |-> a,
      limit |-> l, query |-> q, rawText |-> r, extra |-> x] :
        i \in {Undefined, JsonNumber("5"), JsonString("cancel_bet")}
                 \cup {JsonString(s) : s \in SUPPORTED_INTENTS},
        u \in {Undefined, JsonNumber("5")} \cup {JsonString(s) : s \in Users},
        m \in {Undefined, JsonNumber("5"), JsonString("m1")},
        o \in {Undefined, JsonString("YES"), JsonString("NO"), JsonString("MAYBE")},
        a \in {Undefined, JsonString("250"), JsonNumber("250"), JsonNumber("Infinity")},
        l \in {Undefined, JsonString("5"), JsonNumber("5")},
        q \in {Undefined, JsonNumber("5"), JsonString("election")},
        r \in {Undefined, JsonNull, JsonString("bet 5 on m1")},
        x \in {Undefined, JsonNumber("5")}}

NoFields ==
    [intent |-> Undefined, userId |-> Undefined, marketId |-> Undefined,
     outcome |-> Undefined, amountCents |-> Undefined, limit |-> Undefined,
     query |-> Undefined, rawText |-> Undefined, extra |-> Undefined]

\* What JSON.parse returns: null, a primitive, an array, or an object.
JsonValues ==
    {[kind |-> k, fields |-> NoFields] : k \in {"null", "string", "array"}}
    \cup {[kind |-> "object", fields |-> f] : f \in JsonObjects}

\* parseIntent's null.
ParseNull == [kind |-> "null", fields |-> NoFields]

\* payload.choices?.[0]?.message?.content: missing or not a string, blank,
\* text that is not JSON, or JSON text.
Contents ==
    {[text |-> t, json |-> ParseNull] : t \in {"missing", "blank", "malformed"}}
    \cup {[text |-> "json", json |-> j] : j \in JsonValues}

\* What fetch and response.json() do: fetch rejects, the status is not 2xx,
\* the body is not JSON, or a payload arrives.
Responses ==
    {[fetch |-> f, content |-> [text |-> "missing", json |-> ParseNull]] :
        f \in {"networkError", "notOk", "badBody"}}
    \cup {[fetch |-> "ok", content |-> c] : c \in Contents}

\* Raw messages: empty, whitespace only, text.
RawMessages == {"", " ", "bet 5 on m1"}

\* String.prototype.trim on RawMessages.
trim(s) == IF s = " " THEN "" ELSE s

\* process.env.OPENAI_API_KEY: unset, empty, set.
ApiKeys == {"undefined", "", "sk-test"}

\* isRecord: typeof value === 'object', not null, not an array.
isRecord(json) == json.kind = "object"

\* hasValidRawText
hasValidRawText(value) == value.rawText = Undefined \/ value.rawText.type = "string"

\* Object.keys
ObjectKeys(value) == {key \in DOMAIN value : value[key] # Undefined}

\* Faulty variant: extra keys are let through.
hasOnlyKeys_lenient(value, allowed) == TRUE

\* hasOnlyKeys
hasOnlyKeys(value, allowed) == \A key \in ObjectKeys(value) : key \in allowed

\* isAgentOutput
isAgentOutput(json) ==
    /\ isRecord(json)
    /\ LET value == json.fields IN
       /\ value.intent.type = "string"
       /\ value.intent.val \in SUPPORTED_INTENTS
       /\ value.userId.type = "string"
       /\ hasValidRawText(value)
       /\ CASE value.intent.val = "place_bet" ->
                 /\ value.marketId.type = "string"
                 /\ value.outcome \in {JsonString("YES"), JsonString("NO")}
                 /\ value.amountCents.type = "number"
                 /\ NumberIsFinite(value.amountCents)
                 /\ hasOnlyKeys(value, {"intent", "userId", "marketId", "outcome",
                                        "amountCents", "rawText"})
            [] value.intent.val = "get_balance" ->
                 hasOnlyKeys(value, {"intent", "userId", "rawText"})
            [] value.intent.val = "get_trade_history" ->
                 /\ value.limit # Undefined =>
                       value.limit.type = "number" /\ NumberIsFinite(value.limit)
                 /\ hasOnlyKeys(value, {"intent", "userId", "limit", "rawText"})
            [] value.intent.val = "query_market" ->
                 /\ value.marketId # Undefined => value.marketId.type = "string"
                 /\ value.query # Undefined => value.query.type = "string"
                 /\ hasOnlyKeys(value, {"intent", "userId", "marketId", "query",
                                        "rawText"})
            [] OTHER -> FALSE

\* toBrandedAgentOutput: the variant's own fields are copied, nothing else.
toBrandedAgentOutput(value) ==
    LET copied ==
           CASE value.intent.val = "place_bet" ->
                   {"intent", "userId", "marketId", "outcome", "amountCents", "rawText"}
             [] value.intent.val = "get_balance" -> {"intent", "userId", "rawText"}
             [] value.intent.val = "get_trade_history" ->
                   {"intent", "userId", "limit", "rawText"}
             [] OTHER -> {"intent", "userId", "marketId", "query", "rawText"}
    IN [kind |-> "object",
        fields |-> [key \in JsonKeys |-> IF key \in copied THEN value[key] ELSE Undefined]]

\* parseIntent's try block: what the call settles with for one fetched.
parseIntentTry(fetched, userId) ==
    IF fetched.fetch # "ok" THEN ParseNull
    ELSE IF fetched.content.text # "json" THEN ParseNull
    ELSE IF fetched.content.json = ParseNull THEN ParseNull
    ELSE IF ~isAgentOutput(fetched.content.json) THEN ParseNull
    ELSE IF fetched.content.json.fields.userId # JsonString(userId) THEN ParseNull
    ELSE toBrandedAgentOutput(fetched.content.json.fields)

\* The catch of parseIntent's try block returns null for whatever was thrown.
parseIntentSettles(fetched) == "resolved"

NoParse ==
    [pc |-> "idle", rawMessage |-> "", userId |-> "null", apiKey |-> "undefined",
     response |-> [fetch |-> "none", content |-> [text |-> "missing", json |-> ParseNull]],
     result |-> ParseNull, settled |-> "pending"]

DAY_MS == 86400000

Days == 0..MaxDays

\* utcDateKey(): the UTC calendar day of the clock, counted from the first.
utcDateKey(now) == now \div DAY_MS

\* evictStaleEntries(userMap): every key but today's and yesterday's is
\* deleted; a deleted key reads as 0.
evictStaleEntries(userMap, today) ==
    [d \in Days |-> IF d = today \/ d = today - 1 THEN userMap[d] ELSE 0]

\* getOrInitDay: what it leaves in the ledger.
getOrInitDay(ledger, discordUserId, today) ==
    [ledger EXCEPT ![discordUserId] = evictStaleEntries(@, today)]

\* getSpentToday(discordUserId) -> getOrInitDay: userMap.get(dayKey) ?? 0
getSpentToday(discordUserId) == spendLedger[discordUserId][utcDateKey(nowMs)]

getRemainingToday(discordUserId) ==
    IF DAILY_LIMIT_CENTS - getSpentToday(discordUserId) > 0
    THEN DAILY_LIMIT_CENTS - getSpentToday(discordUserId)
    ELSE 0

\* Faulty variant: only the amount is compared with the limit.
canSpend_amountOnly(discordUserId, amountCents) == amountCents <= DAILY_LIMIT_CENTS

canSpend(discordUserId, amountCents) ==
    getSpentToday(discordUserId) + amountCents <= DAILY_LIMIT_CENTS

\* recordSpend with the dayKey its own clock read gives.
recordSpend(ledger, discordUserId, dayKey, amountCents) ==
    [ledger EXCEPT ![discordUserId][dayKey] = @ + amountCents]

\* No call of the limits module has been answered yet.
NoSpend ==
    [op |-> "none", discordUserId |-> "null", amountCents |-> 0, spentBefore |-> 0,
     dayAtCheck |-> 0, dayAtRecord |-> 0, result |-> FALSE, remaining |-> 0]

buildValidationContext(discordUserId) ==
    [polymarketAccountId |-> getLinkedAccount(links, discordUserId),
     marketLookup |-> [m \in MarketIds |-> NoMarket],
     dailyLimitCents |-> DAILY_LIMIT_CENTS,
     spentTodayCents |-> getSpentToday(discordUserId),
     hourlyLimitCents |-> HOURLY_LIMIT_CENTS,
     spentThisHourCents |-> 0,
     minOrderCents |-> 1,
     maxOrderCents |-> 2 * DAILY_LIMIT_CENTS]

\* Faulty variant: the key is taken from the instant, not from its bucket.
timeBucket_instant(now) == now

timeBucket(now) == now \div TIME_BUCKET_MS

\* hash(identity, market.id, outcome, amountCents, timeBucket), as a digest
\* without collisions.
idempotencyKey(identity, marketId, outcome, amountCents, bucket) ==
    <<identity.discordUserId, identity.polymarketAccountId, marketId, outcome,
      amountCents, bucket>>

NoTradeRequest ==
    [identity |-> [discordUserId |-> "null", polymarketAccountId |-> NoAccount],
     market |-> NoMarket, outcome |-> "null", amountCents |-> 0,
     idempotencyKey |-> <<>>]

buildTradeRequest(agentOutput, identity, market, now) ==
    [identity |-> identity,
     market |-> market,
     outcome |-> agentOutput.outcome,
     amountCents |-> agentOutput.amountCents,
     idempotencyKey |->
         idempotencyKey(identity, market.id, agentOutput.outcome,
                        agentOutput.amountCents, timeBucket(now))]

\* What happens to an order at the exchange, and whether the credential
\* store has no credentials for the user ("leader": the order goes through
\* the leader's client).
ClobOutcomes == {"filled", "rejected", "leader"}

\* Faulty variant: the leader's client is used for whoever asks.
executeTradeForAccount_leaderAllowed(payload, clob) ==
    IF payload.amountCents < POLYMARKET_MIN_ORDER_CENTS THEN "INVALID_AMOUNT"
    ELSE IF clob = "rejected" THEN "UPSTREAM_UNAVAILABLE"
    ELSE "filled"

\* executeTradeForAccount: "filled" when the order was placed and matched,
\* otherwise the code it throws. The leader's client is refused only when the
\* params name a discordUserId.
executeTradeForAccount(payload, clob) ==
    LET isLeader == payload.discordUserId = "null" \/ clob = "leader" IN
    IF isLeader /\ payload.discordUserId # "null" THEN "ACCOUNT_NOT_CONNECTED"
    ELSE IF payload.amountCents < POLYMARKET_MIN_ORDER_CENTS THEN "INVALID_AMOUNT"
    ELSE IF clob = "rejected" THEN "UPSTREAM_UNAVAILABLE"
    ELSE "filled"

CLIENT_CACHE_TTL_MS == 1800000

\* The clock advances to the last instant a cached client is fresh or to the
\* first at which it is stale.
CacheSteps == {CLIENT_CACHE_TTL_MS - 1, CLIENT_CACHE_TTL_MS}

\* getCredentials returned null: no row for the user.
NoCredentials == 0

NoClobClient == [kind |-> "none", credentials |-> NoCredentials]

leaderClobClient == [kind |-> "leader", credentials |-> NoCredentials]

buildClobClientFromCredentials(creds) == [kind |-> "user", credentials |-> creds]

NoCachedClient == [client |-> NoClobClient, createdAtMs |-> 0]

\* getClobClientForUser: cached && Date.now() - cached.createdAtMs < TTL
cacheHit(cached, now) ==
    /\ cached # NoCachedClient
    /\ now - cached.createdAtMs < CLIENT_CACHE_TTL_MS

NoGatewayCall ==
    [pc |-> "idle", discordUserId |-> "null", amountCents |-> 0,
     creds |-> NoCredentials, client |-> NoClobClient, isLeader |-> FALSE,
     fallback |-> "none", result |-> "none",
     credsAtStart |-> NoCredentials, afterSetup |-> FALSE]

NoSetup == [pc |-> "idle", discordUserId |-> "null"]

NoTradeResult == [ok |-> FALSE, errorCode |-> "none", amountCents |-> 0]

\* Faulty variant: a gateway error is swallowed and success reported.
placeTrade_fabricates(request, gatewayOutcome) ==
    [ok |-> TRUE, errorCode |-> "none", amountCents |-> request.amountCents]

placeTrade(request, gatewayOutcome) ==
    IF gatewayOutcome = "filled"
    THEN [ok |-> TRUE, errorCode |-> "none", amountCents |-> request.amountCents]
    ELSE [ok |-> FALSE, errorCode |-> "UPSTREAM_UNAVAILABLE", amountCents |-> 0]

\* Faulty variant: handleWrite goes on with any parsed intent.
handleWriteIsTrade_any(agentOutput) == agentOutput # NoRawOutput

\* handleWrite goes past its first two checks only with a place_bet.
handleWriteIsTrade(agentOutput) ==
    agentOutput # NoRawOutput /\ agentOutput.intent = "place_bet"

\* Collaborators of handleRead and handleWrite whose promise can reject.
\* parseIntent and placeTrade catch their own errors.
ReadCollaborators == {"readService", "readExplainer"}

WriteCollaborators == {"readService", "buildValidationContext"}

\* Faulty variant: every message is handed to the WRITE handler.
routeMessageHandler_alwaysWrite(pipeline) == "handleWrite"

\* routeMessage: READ goes to handleRead, anything else to handleWrite.
routeMessageHandler(pipeline) ==
    IF pipeline = "READ" THEN "handleRead" ELSE "handleWrite"

\* routeMessage's try block returns the handler's promise without awaiting
\* it, so its catch sees only what is thrown before the handler is called;
\* a rejection of handleRead or handleWrite settles routeMessage's promise.
routeMessageSettles(failure) == IF failure = "none" THEN "resolved" ELSE "rejected"

\* Faulty variant: handleWrite goes on whatever the validation said.
handleWriteRejection_none(validation, resolvedMarket) == "ok"

\* handleWrite between validateAgentOutput and buildTradeRequest: the error
\* it answers with, or "ok" when it goes on to build the request.
handleWriteRejection(validation, resolvedMarket) ==
    IF validation # "ok" THEN validation
    ELSE IF resolvedMarket = NoMarket THEN "INVALID_MARKET"
    ELSE "ok"

NoRoute ==
    [pc |-> "idle", seq |-> 0, discordUserId |-> "null", message |-> <<>>,
     pipeline |-> "none", parsed |-> NoRawOutput, agentOutput |-> NoRawOutput,
     resolvedMarket |-> NoMarket, validation |-> "none",
     linkedAtValidation |-> NoAccount,
     tradeRequest |-> NoTradeRequest, builtAtMs |-> 0,
     gatewayOutcome |-> "none", tradeResult |-> NoTradeResult, reply |-> "none",
     settled |-> "pending"]

NoLastRequest == [tradeRequest |-> NoTradeRequest, builtAtMs |-> 0]

-----------------------------------------------------------------------------
(* Initial state *)

InitLink ==
    /\ byDiscordUserId = {}
    /\ ownerByNonce = {}
    /\ links = {}
    /\ nowMs = 0
    /\ ticks = 0
    /\ nextNonce = 1
    /\ calls = [p \in Calls |-> IdleCall]
    /\ issued = {}
    /\ linkedCount = [n \in Nonces |-> 0]
    /\ linkedAccount = [u \in Users |-> NoAccount]
    /\ connect = NoConnect
    /\ shown = [n \in Nonces |-> NoMessage]

NoWrite ==
    [pc |-> "off", agentOutput |-> NoAgentOutput, resolvedMarket |-> NoMarket,
     baseValidationContext |-> NoValidationContext,
     validation |-> "none", reply |-> "none"]

\* No HTTP request has been answered yet.
NoResponse == [path |-> "none", status |-> 0, sessionId |-> 0]

InitTradeVars ==
    /\ route = NoRoute
    /\ spendLedger = [u \in Users |-> [d \in Days |-> 0]]
    /\ spend = NoSpend
    /\ executedCents = [u \in Users |-> 0]
    /\ lastRequest = NoLastRequest
    /\ validations = {}
    /\ placedOrders = {}
    /\ credentialStore = TRUE
    /\ credentials = [u \in Users |-> NoCredentials]
    /\ userClientCache = [u \in Users |-> NoCachedClient]
    /\ trade = NoGatewayCall
    /\ setup = NoSetup

InitAuthVars ==
    /\ sessions = {}
    /\ nextSessionId = 1
    /\ persisted = {}
    /\ markedUsed = {}
    /\ response = NoResponse

Init ==
    /\ InitLink
    /\ write = NoWrite
    /\ parse = NoParse
    /\ InitTradeVars
    /\ InitAuthVars

-----------------------------------------------------------------------------
(* Actions of SpecLink *)

Tick(d) ==
    /\ Quiescent
    /\ ticks < MaxTicks
    /\ nowMs' = nowMs + d
    /\ ticks' = ticks + 1
    /\ UNCHANGED <<byDiscordUserId, ownerByNonce, links, nextNonce, calls,
                   issued, linkedCount, linkedAccount, write, parse, connect, shown,
                   tradeVars, authVars>>

\* connect account: handleConnectAccount -> issueChallenge -> store.create
ConnectAccount(discordUserId) ==
    /\ Quiescent
    /\ nextNonce <= MaxNonces
    /\ LET challenge == issueChallenge(discordUserId, nowMs, nextNonce) IN
       /\ byDiscordUserId' = create_byDiscordUserId(byDiscordUserId, challenge)
       /\ ownerByNonce' = create_ownerByNonce(ownerByNonce, challenge)
       /\ issued' = issued \cup {challenge}
       /\ connect' = handleConnectAccountReply(discordUserId, issueSucceeded(challenge))
       /\ shown' = [shown EXCEPT ![challenge.nonce] =
                       handleConnectAccountReply(discordUserId,
                                                 issueSucceeded(challenge)).message]
    /\ nextNonce' = nextNonce + 1
    /\ UNCHANGED <<links, nowMs, ticks, calls, linkedCount, linkedAccount, write, parse,
                   tradeVars, authVars>>

\* Faulty variant: handleVerify persists whatever verifyLink returned.
handleVerifyPersists_always(verification) == TRUE

\* handleVerify goes on to persistLink only when verifyLink returned ok.
handleVerifyPersists(verification) == verification = "ok"

\* Faulty variant: the challenge is consumed before the signature is judged.
verifyLinkConsumes_onMismatch(verification) ==
    verification \in {"ok", "SIGNATURE_MISMATCH"}

\* verifyLink step 4: markUsed is called only on success.
verifyLinkConsumes(verification) == verification = "ok"

\* Signatures a caller can submit with a nonce: by either wallet over the
\* message connect account showed for that nonce or over some other text,
\* or a malformed one.
SignaturesFor(nonce) ==
    {MalformedSignature} \cup
    {[signer |-> w, message |-> m] :
        w \in Wallets,
        m \in {shown[nonce], NoMessage}}

\* verify <account> <nonce> <signature>: handleVerify calls verifyLink, which
\* fetches the active challenge and checks it and the signature.
VerifyStart(p, discordUserId, polymarketAccountId, nonce, signature) ==
    /\ Quiescent
    /\ FreeSlot(p)
    /\ LET challenge == getActive(discordUserId)
           verification ==
               verifyLinkCheck(challenge, nonce, polymarketAccountId, signature, nowMs)
       IN calls' = [calls EXCEPT ![p] =
              [IdleCall EXCEPT
                 !.op = "verify",
                 !.pc = IF verifyLinkConsumes(verification) THEN "markUsed"
                        ELSE IF handleVerifyPersists(verification) THEN "persist"
                        ELSE "done",
                 !.discordUserId = discordUserId,
                 !.polymarketAccountId = polymarketAccountId,
                 !.nonce = nonce,
                 !.signature = signature,
                 !.nowMs = nowMs,
                 !.challenge = challenge,
                 !.verification = verification,
                 !.reply = IF verification = "ok" THEN "none" ELSE verification,
                 !.latestAtStart = (nonce = LatestNonce(discordUserId)),
                 !.consumedAtStart = (linkedCount[nonce] > 0)]]
    /\ UNCHANGED <<byDiscordUserId, ownerByNonce, links, nowMs, ticks, nextNonce,
                   issued, linkedCount, linkedAccount, write, parse, connect, shown,
                   tradeVars, authVars>>

\* verifyLink step 4: markUsed(nonce), then return success to handleVerify,
\* which from here on uses only the identity and the claimed account.
VerifyMarkUsed(p) ==
    /\ Quiescent
    /\ calls[p].pc = "markUsed"
    /\ byDiscordUserId' = markUsed(calls[p].nonce)
    /\ linkedCount' = [linkedCount EXCEPT ![calls[p].nonce] = Saturate(@ + 1)]
    /\ calls' = [calls EXCEPT ![p] =
          [IdleCall EXCEPT
             !.op = "verify",
             !.pc = "persist",
             !.discordUserId = calls[p].discordUserId,
             !.polymarketAccountId = calls[p].polymarketAccountId,
             !.verification = calls[p].verification]]
    /\ UNCHANGED <<ownerByNonce, links, nowMs, ticks, nextNonce, issued,
                   linkedAccount, write, parse, connect, shown,
                   tradeVars, authVars>>

\* Faulty variant: success is reported whatever persistLink returned.
handleVerifyReply_always(persistedOk) == "connected"

\* handleVerify after a successful verification: the reply depends on whether
\* persistLink saved the link.
handleVerifyReply(persistedOk) == IF persistedOk THEN "connected" ELSE "not_saved"

\* handleVerify: persistLink(discordUserId, polymarketAccountId, nowMs()).
VerifyPersist(p) ==
    /\ Quiescent
    /\ calls[p].op = "verify"
    /\ calls[p].pc = "persist"
    /\ links' = link(links, calls[p].discordUserId, calls[p].polymarketAccountId, nowMs)
    /\ linkedAccount' =
          [linkedAccount EXCEPT ![calls[p].discordUserId] = calls[p].polymarketAccountId]
    /\ calls' = [calls EXCEPT ![p].pc = "done",
                              ![p].reply = IF calls[p].verification = "ok"
                                           THEN handleVerifyReply(TRUE) ELSE @]
    /\ UNCHANGED <<byDiscordUserId, ownerByNonce, nowMs, ticks, nextNonce,
                   issued, linkedCount, write, parse, connect, shown,
                   tradeVars, authVars>>

\* The handler's promise has resolved and its reply has been sent.
Return(p) ==
    /\ calls[p].pc = "done"
    /\ calls' = [calls EXCEPT ![p] = IdleCall]
    /\ UNCHANGED <<byDiscordUserId, ownerByNonce, links, nowMs, ticks, nextNonce,
                   issued, linkedCount, linkedAccount, write, parse, connect, shown,
                   tradeVars, authVars>>

NextLink ==
    \/ \E d \in TickSteps : Tick(d)
    \/ \E u \in Users : ConnectAccount(u)
    \/ \E p \in Calls, u \in Users, a \in Accounts, n \in 1..(nextNonce - 1) :
          \E s \in SignaturesFor(n) : VerifyStart(p, u, a, n, s)
    \/ \E p \in Calls : VerifyMarkUsed(p)
    \/ \E p \in Calls : VerifyPersist(p)
    \/ \E p \in Calls : Return(p)

SpecLink == Init /\ [][NextLink]_vars

-----------------------------------------------------------------------------
(* Actions of SpecOutage: the account link commands when a store write can fail *)

\* handleConnectAccount when the challenge store write fails: issueChallenge
\* returns STORE_UNAVAILABLE and nothing has been written.
ConnectAccountUnavailable(discordUserId) ==
    /\ Quiescent
    /\ connect' = handleConnectAccountReply(discordUserId, issueFailed)
    /\ UNCHANGED <<byDiscordUserId, ownerByNonce, links, nowMs, ticks, nextNonce,
                   calls, issued, linkedCount, linkedAccount, shown, write, parse,
                   tradeVars, authVars>>

\* handleVerify when persistLink cannot save the link: the link store is
\* unchanged and the reply says so.
VerifyPersistUnavailable(p) ==
    /\ Quiescent
    /\ calls[p].op = "verify"
    /\ calls[p].pc = "persist"
    /\ calls' = [calls EXCEPT ![p].pc = "done",
                              ![p].reply = IF calls[p].verification = "ok"
                                           THEN handleVerifyReply(FALSE) ELSE @]
    /\ UNCHANGED <<byDiscordUserId, ownerByNonce, links, nowMs, ticks, nextNonce,
                   issued, linkedCount, linkedAccount, connect, shown, write, parse,
                   tradeVars, authVars>>

\* One verify command is in flight at a time here; the interleavings of two
\* are SpecLink's.
NextOutage ==
    \/ \E d \in TickSteps : Tick(d)
    \/ \E u \in Users : ConnectAccount(u)
    \/ \E u \in Users : ConnectAccountUnavailable(u)
    \/ \E u \in Users, a \in Accounts, n \in 1..(nextNonce - 1) :
          \E s \in SignaturesFor(n) : VerifyStart(1, u, a, n, s)
    \/ \E p \in Calls : VerifyMarkUsed(p)
    \/ \E p \in Calls : VerifyPersist(p)
    \/ \E p \in Calls : VerifyPersistUnavailable(p)
    \/ \E p \in Calls : Return(p)

SpecOutage == Init /\ [][NextOutage]_vars

-----------------------------------------------------------------------------
(* Actions of SpecStore *)

\* persistLink(discordUserId, accountId, nowMs) -> store.link
PersistLink(p, discordUserId, polymarketAccountId) ==
    /\ Quiescent
    /\ FreeSlot(p)
    /\ links' = link(links, discordUserId, polymarketAccountId, nowMs)
    /\ linkedAccount' = [linkedAccount EXCEPT ![discordUserId] = polymarketAccountId]
    /\ calls' = [calls EXCEPT ![p] =
          [IdleCall EXCEPT
             !.op = "persistLink",
             !.pc = "done",
             !.discordUserId = discordUserId,
             !.polymarketAccountId = polymarketAccountId,
             !.nowMs = nowMs,
             !.priorAccount = linkedAccount[discordUserId],
             !.reply = "ok"]]
    /\ UNCHANGED <<byDiscordUserId, ownerByNonce, nowMs, ticks, nextNonce,
                   issued, linkedCount, write, parse, connect, shown,
                   tradeVars, authVars>>

\* getLinkedAccount(discordUserId) -> store.getLinkedAccount
GetLinkedAccount(p, discordUserId) ==
    /\ Quiescent
    /\ FreeSlot(p)
    /\ calls' = [calls EXCEPT ![p] =
          [IdleCall EXCEPT
             !.op = "getLinkedAccount",
             !.pc = "done",
             !.discordUserId = discordUserId,
             !.nowMs = nowMs,
             !.priorAccount = linkedAccount[discordUserId],
             !.reply = getLinkedAccount(links, discordUserId)]]
    /\ UNCHANGED <<byDiscordUserId, ownerByNonce, links, nowMs, ticks, nextNonce,
                   issued, linkedCount, linkedAccount, write, parse, connect, shown,
                   tradeVars, authVars>>

\* unlink(discordUserId): look the link up, fail with LINK_NOT_FOUND if there
\* is none ...
UnlinkStart(p, discordUserId) ==
    /\ Quiescent
    /\ FreeSlot(p)
    /\ LET existing == getLinkedAccount(links, discordUserId) IN
       calls' = [calls EXCEPT ![p] =
           [IdleCall EXCEPT
              !.op = "unlink",
              !.pc = IF existing = NoAccount THEN "done" ELSE "delete",
              !.discordUserId = discordUserId,
              !.nowMs = nowMs,
              !.priorAccount = linkedAccount[discordUserId],
              !.reply = IF existing = NoAccount THEN "LINK_NOT_FOUND" ELSE "none"]]
    /\ UNCHANGED <<byDiscordUserId, ownerByNonce, links, nowMs, ticks, nextNonce,
                   issued, linkedCount, linkedAccount, write, parse, connect, shown,
                   tradeVars, authVars>>

\* ... otherwise store.unlink.
UnlinkDelete(p) ==
    /\ Quiescent
    /\ calls[p].op = "unlink"
    /\ calls[p].pc = "delete"
    /\ links' = unlink(links, calls[p].discordUserId)
    /\ linkedAccount' = [linkedAccount EXCEPT ![calls[p].discordUserId] = NoAccount]
    /\ calls' = [calls EXCEPT ![p].pc = "done",
                              ![p].reply = "ok"]
    /\ UNCHANGED <<byDiscordUserId, ownerByNonce, nowMs, ticks, nextNonce,
                   issued, linkedCount, write, parse, connect, shown,
                   tradeVars, authVars>>

NextStore ==
    \/ \E d \in TickSteps : Tick(d)
    \/ \E p \in Calls, u \in Users, a \in Accounts : PersistLink(p, u, a)
    \/ \E p \in Calls, u \in Users : GetLinkedAccount(p, u)
    \/ \E p \in Calls, u \in Users : UnlinkStart(p, u)
    \/ \E p \in Calls : UnlinkDelete(p)
    \/ \E p \in Calls : Return(p)

SpecStore == Init /\ [][NextStore]_vars

-----------------------------------------------------------------------------
(* SpecIdentities: connect account, verify and disconnect of both identities *)

\* One verify command is in flight at a time, while the other identity
\* connects or disconnects around it.
NextIdentities ==
    \/ \E d \in TickSteps : Tick(d)
    \/ \E u \in Users : ConnectAccount(u)
    \/ \E u \in Users, a \in Accounts, n \in 1..(nextNonce - 1) :
          \E s \in SignaturesFor(n) : VerifyStart(1, u, a, n, s)
    \/ \E p \in Calls : VerifyMarkUsed(p)
    \/ \E p \in Calls : VerifyPersist(p)
    \/ \E p \in Calls, u \in Users : UnlinkStart(p, u)
    \/ \E p \in Calls : UnlinkDelete(p)
    \/ \E p \in Calls : Return(p)

SpecIdentities == Init /\ [][NextIdentities]_vars

-----------------------------------------------------------------------------
(* SpecLimits: the daily spend ledger *)

\* Amounts around the limit: two that fit together, two that do not, the limit
\* itself and one cent more.
SpendAmounts == {250, 251, DAILY_LIMIT_CENTS, DAILY_LIMIT_CENTS + 1}

\* Time the clock can advance between canSpend's reading of it and
\* recordSpend's: none, or past midnight UTC.
Elapsed == {0, DAY_MS}

\* trySpend(discordUserId, amountCents): canSpend, then recordSpend. The two
\* read the clock separately; nothing else runs between them.
TrySpend(discordUserId, amountCents, elapsed) ==
    /\ utcDateKey(nowMs + elapsed) <= MaxDays
    /\ LET dayAtCheck == utcDateKey(nowMs)
           dayAtRecord == utcDateKey(nowMs + elapsed)
           evicted == getOrInitDay(spendLedger, discordUserId, dayAtCheck)
           result == canSpend(discordUserId, amountCents)
       IN /\ (~result => elapsed = 0)
          /\ spendLedger' = IF result
                            THEN recordSpend(evicted, discordUserId, dayAtRecord, amountCents)
                            ELSE evicted
          /\ nowMs' = nowMs + elapsed
          /\ spend' = [NoSpend EXCEPT
                          !.op = "trySpend",
                          !.discordUserId = discordUserId,
                          !.amountCents = amountCents,
                          !.spentBefore = getSpentToday(discordUserId),
                          !.dayAtCheck = dayAtCheck,
                          !.dayAtRecord = dayAtRecord,
                          !.result = result]
    /\ UNCHANGED <<byDiscordUserId, ownerByNonce, links, ticks, nextNonce, calls, issued,
                   linkedCount, linkedAccount, connect, shown, write, parse, route,
                   executedCents, lastRequest, validations, placedOrders, gatewayVars,
                   authVars>>

\* getRemainingToday(discordUserId), which also evicts through getOrInitDay.
GetRemainingToday(discordUserId) ==
    /\ spendLedger' = getOrInitDay(spendLedger, discordUserId, utcDateKey(nowMs))
    /\ spend' = [NoSpend EXCEPT
                    !.op = "getRemainingToday",
                    !.discordUserId = discordUserId,
                    !.spentBefore = getSpentToday(discordUserId),
                    !.dayAtCheck = utcDateKey(nowMs),
                    !.dayAtRecord = utcDateKey(nowMs),
                    !.remaining = getRemainingToday(discordUserId)]
    /\ UNCHANGED <<linkVars, write, parse, route, executedCents, lastRequest, validations,
                   placedOrders, gatewayVars,
                   authVars>>

\* Midnight UTC passes.
NextDay ==
    /\ utcDateKey(nowMs + DAY_MS) <= MaxDays
    /\ nowMs' = nowMs + DAY_MS
    /\ UNCHANGED <<byDiscordUserId, ownerByNonce, links, ticks, nextNonce, calls, issued,
                   linkedCount, linkedAccount, connect, shown, write, parse, tradeVars, authVars>>

NextLimits ==
    \/ \E u \in Users, a \in SpendAmounts, e \in Elapsed : TrySpend(u, a, e)
    \/ \E u \in Users : GetRemainingToday(u)
    \/ NextDay

SpecLimits == Init /\ [][NextLimits]_vars

-----------------------------------------------------------------------------
(* SpecGateway: ClobPolymarketExecutionGateway and the credential store *)

otherVars ==
    <<linkVars, write, parse, route, spendLedger, spend, executedCents, lastRequest,
      validations, placedOrders, authVars>>

\* Callers of executeTradeForAccount: a user, or params without discordUserId.
GatewayCallers == Users \cup {"null"}

GatewayAmounts == {250, POLYMARKET_MIN_ORDER_CENTS}

\* The gateway is constructed with or without the per-user credential store.
InitGateway ==
    /\ InitLink
    /\ write = NoWrite
    /\ parse = NoParse
    /\ route = NoRoute
    /\ spendLedger = [u \in Users |-> [d \in Days |-> 0]]
    /\ spend = NoSpend
    /\ executedCents = [u \in Users |-> 0]
    /\ lastRequest = NoLastRequest
    /\ validations = {}
    /\ placedOrders = {}
    /\ credentialStore \in BOOLEAN
    /\ credentials = [u \in Users |-> NoCredentials]
    /\ userClientCache = [u \in Users |-> NoCachedClient]
    /\ trade = NoGatewayCall
    /\ setup = NoSetup
    /\ InitAuthVars

\* The clock moves while no continuation is pending.
GatewayTick(d) ==
    /\ ticks < MaxTicks
    /\ nowMs' = nowMs + d
    /\ ticks' = ticks + 1
    /\ UNCHANGED <<byDiscordUserId, ownerByNonce, links, nextNonce, calls, issued,
                   linkedCount, linkedAccount, connect, shown, write, parse, tradeVars, authVars>>

\* executeTradeForAccount -> getClobClientForUser up to its first await: the
\* leader without an id or without a store, the cached client when fresh,
\* otherwise the credential lookup is started.
ExecuteTradeStart(discordUserId, amountCents) ==
    /\ trade.pc = "idle"
    /\ LET started == [NoGatewayCall EXCEPT
                          !.discordUserId = discordUserId,
                          !.amountCents = amountCents,
                          !.credsAtStart = IF discordUserId = "null" THEN NoCredentials
                                           ELSE credentials[discordUserId],
                          !.afterSetup = /\ discordUserId # "null"
                                         /\ credentials[discordUserId] # NoCredentials
                                         /\ ~(setup.pc # "idle"
                                                /\ setup.discordUserId = discordUserId)]
       IN trade' =
             IF discordUserId = "null" \/ ~credentialStore
             THEN [started EXCEPT !.pc = "resolved", !.client = leaderClobClient,
                                  !.isLeader = TRUE,
                                  !.fallback = IF discordUserId = "null" THEN "none"
                                               ELSE "no_store"]
             ELSE IF cacheHit(userClientCache[discordUserId], nowMs)
             THEN [started EXCEPT !.pc = "resolved",
                                  !.client = userClientCache[discordUserId].client]
             ELSE [started EXCEPT !.pc = "lookup"]
    /\ UNCHANGED <<otherVars, credentialStore, credentials, userClientCache, setup>>

\* credentialStore.getCredentials(discordUserId) reads the row, finds none, or
\* fails; without credentials getClobClientForUser returns the leader.
GetCredentials(lookup) ==
    /\ trade.pc = "lookup"
    /\ trade' =
          IF lookup = "error"
          THEN [trade EXCEPT !.pc = "resolved", !.client = leaderClobClient,
                             !.isLeader = TRUE, !.fallback = "lookup_error"]
          ELSE IF credentials[trade.discordUserId] = NoCredentials
          THEN [trade EXCEPT !.pc = "resolved", !.client = leaderClobClient,
                             !.isLeader = TRUE, !.fallback = "no_credentials"]
          ELSE [trade EXCEPT !.pc = "build", !.creds = credentials[trade.discordUserId]]
    /\ UNCHANGED <<otherVars, credentialStore, credentials, userClientCache, setup>>

\* getClobClientForUser after the await: the client is built from the
\* credentials read and written to the cache.
CacheClient ==
    /\ trade.pc = "build"
    /\ userClientCache' =
          [userClientCache EXCEPT ![trade.discordUserId] =
              [client |-> buildClobClientFromCredentials(trade.creds),
               createdAtMs |-> nowMs]]
    /\ trade' = [trade EXCEPT !.pc = "resolved",
                              !.client = buildClobClientFromCredentials(trade.creds)]
    /\ UNCHANGED <<otherVars, credentialStore, credentials, setup>>

\* executeTradeForAccount with the client resolved: the leader check, the
\* minimum order size, then the order is posted.
ExecuteTradePost(exchange) ==
    /\ trade.pc = "resolved"
    /\ LET payload == [discordUserId |-> trade.discordUserId,
                       amountCents |-> trade.amountCents]
           outcome == executeTradeForAccount(
                          payload,
                          IF trade.isLeader /\ trade.discordUserId # "null"
                          THEN "leader" ELSE exchange)
       IN trade' = [trade EXCEPT !.pc = "done", !.result = outcome]
    /\ UNCHANGED <<otherVars, credentialStore, credentials, userClientCache, setup>>

\* executeTradeForAccount has returned or thrown.
ExecuteTradeReturn ==
    /\ trade.pc = "done"
    /\ trade' = NoGatewayCall
    /\ UNCHANGED <<otherVars, credentialStore, credentials, userClientCache, setup>>

\* /api/setup-trading: credentialStore.saveCredentials(discordUserId, ...)
SetupSaveCredentials(discordUserId) ==
    /\ credentialStore
    /\ setup.pc = "idle"
    /\ credentials[discordUserId] < MaxCredentials
    /\ credentials' = [credentials EXCEPT ![discordUserId] = @ + 1]
    /\ setup' = [pc |-> "evict", discordUserId |-> discordUserId]
    /\ UNCHANGED <<otherVars, credentialStore, userClientCache, trade>>

\* /api/setup-trading after the await: executionGateway.evictUserClient
SetupEvictUserClient ==
    /\ setup.pc = "evict"
    /\ userClientCache' = [userClientCache EXCEPT ![setup.discordUserId] = NoCachedClient]
    /\ setup' = NoSetup
    /\ UNCHANGED <<otherVars, credentialStore, credentials, trade>>

NextGateway ==
    \/ \E d \in CacheSteps : GatewayTick(d)
    \/ \E u \in GatewayCallers, a \in GatewayAmounts : ExecuteTradeStart(u, a)
    \/ \E lookup \in {"row", "error"} : GetCredentials(lookup)
    \/ CacheClient
    \/ \E exchange \in {"filled", "rejected"} : ExecuteTradePost(exchange)
    \/ ExecuteTradeReturn
    \/ \E u \in Users : SetupSaveCredentials(u)
    \/ SetupEvictUserClient

SpecGateway == InitGateway /\ [][NextGateway]_vars

-----------------------------------------------------------------------------
(* Actions of SpecValidate *)

\* One WRITE message whose intent has been parsed, with the market the read
\* service resolved for it and the context built for the caller.
InitValidate ==
    /\ InitLink
    /\ parse = NoParse
    /\ InitTradeVars
    /\ InitAuthVars
    /\ \E agentOutput \in AgentOutputs, context \in ValidationContexts :
          /\ context.spentTodayCents <= context.dailyLimitCents
          /\ \E resolvedMarket \in ResolvedMarkets(agentOutput.marketId) :
                write = [NoWrite EXCEPT
                           !.pc = "parsed",
                           !.agentOutput = agentOutput,
                           !.resolvedMarket =
                               IF agentOutput.intent = "place_bet"
                               THEN resolvedMarket ELSE NoMarket,
                           !.baseValidationContext = context]

\* handleWrite: an intent other than place_bet is answered without validation.
HandleWriteNotPlaceBet ==
    /\ write.pc = "parsed"
    /\ write.agentOutput.intent # "place_bet"
    /\ write' = [write EXCEPT !.pc = "replied", !.reply = "not_a_trade"]
    /\ UNCHANGED <<linkVars, parse, tradeVars, authVars>>

\* handleWrite: validateAgentOutput(agentOutput, validationContext).
HandleWriteValidate ==
    /\ write.pc = "parsed"
    /\ write.agentOutput.intent = "place_bet"
    /\ write' = [write EXCEPT
          !.pc = "validated",
          !.validation =
              validateAgentOutput(
                  write.agentOutput,
                  validationContext(write.baseValidationContext, write.agentOutput,
                                    write.resolvedMarket))]
    /\ UNCHANGED <<linkVars, parse, tradeVars, authVars>>

\* handleWrite: a validation error is reported; so is a market that did not
\* resolve; otherwise the trade request is built and handed to the trader.
HandleWriteRespond ==
    /\ write.pc = "validated"
    /\ write' = [write EXCEPT
          !.pc = "replied",
          !.reply = IF write.validation # "ok" THEN write.validation
                    ELSE IF write.resolvedMarket = NoMarket THEN "INVALID_MARKET"
                    ELSE "placeTrade"]
    /\ UNCHANGED <<linkVars, parse, tradeVars, authVars>>

NextValidate ==
    \/ HandleWriteNotPlaceBet
    \/ HandleWriteValidate
    \/ HandleWriteRespond

SpecValidate == InitValidate /\ [][NextValidate]_vars

-----------------------------------------------------------------------------
(* Actions of SpecTrade *)

\* The bot is running, u1 has linked an account, u2 has not.
InitTrade ==
    /\ byDiscordUserId = {}
    /\ ownerByNonce = {}
    /\ links = link({}, "u1", "0xaa", 0)
    /\ nowMs = 0
    /\ ticks = 0
    /\ nextNonce = 1
    /\ calls = [p \in Calls |-> IdleCall]
    /\ issued = {}
    /\ linkedCount = [n \in Nonces |-> 0]
    /\ linkedAccount = [u \in Users |-> IF u = "u1" THEN "0xaa" ELSE NoAccount]
    /\ connect = NoConnect
    /\ shown = [n \in Nonces |-> NoMessage]
    /\ write = NoWrite
    /\ parse = NoParse
    /\ InitTradeVars
    /\ InitAuthVars

\* routeMessage: classify; a READ message is answered by handleRead, a WRITE
\* message goes on to handleWrite.
RouteMessage(discordUserId, message, failure) ==
    /\ route.pc = "idle"
    /\ route.seq < MaxMessages
    /\ LET pipeline == classifyMessageIntent(message) IN
       /\ pipeline = "WRITE" => failure = "none"
       /\ route' = [route EXCEPT
             !.seq = @ + 1,
             !.discordUserId = discordUserId,
             !.message = message,
             !.pipeline = pipeline,
             !.pc = IF routeMessageHandler(pipeline) = "handleRead" THEN "done"
                    ELSE "parseIntent",
             !.reply = IF pipeline = "WRITE" \/ failure # "none" THEN "none" ELSE "read",
             !.settled = IF pipeline = "READ" THEN routeMessageSettles(failure)
                         ELSE "pending"]
    /\ UNCHANGED <<linkVars, write, parse, spendLedger, spend, executedCents, lastRequest,
                   validations, placedOrders, gatewayVars,
                   authVars>>

\* handleWrite: parseIntent(message, discordUserId); a null or an intent other
\* than place_bet is answered at once.
RouteParseIntent(parsed) ==
    /\ route.pc = "parseIntent"
    /\ LET agentOutput == parseIntent(parsed, route.discordUserId) IN
       route' = [route EXCEPT
          !.parsed = parsed,
          !.agentOutput = agentOutput,
          !.pc = IF handleWriteIsTrade(agentOutput) THEN "validate" ELSE "done",
          !.settled = IF handleWriteIsTrade(agentOutput) THEN "pending" ELSE "resolved",
          !.reply = IF agentOutput = NoRawOutput THEN "could_not_parse"
                    ELSE IF ~handleWriteIsTrade(agentOutput) THEN "not_a_trade"
                    ELSE "none"]
    /\ UNCHANGED <<linkVars, write, parse, spendLedger, spend, executedCents, lastRequest,
                   validations, placedOrders, gatewayVars,
                   authVars>>

\* handleWrite: getMarketById, buildValidationContext, validateAgentOutput,
\* the null-market check, buildTradeRequest.
RouteValidate(resolvedMarket) ==
    /\ route.pc = "validate"
    /\ LET base == buildValidationContext(route.discordUserId)
           context == validationContext(base, route.agentOutput, resolvedMarket)
           validation == validateAgentOutput(route.agentOutput, context)
           code == handleWriteRejection(validation, resolvedMarket)
           identity == [discordUserId |-> route.discordUserId,
                        polymarketAccountId |-> context.polymarketAccountId]
       IN /\ route' = [route EXCEPT
                !.resolvedMarket = resolvedMarket,
                !.validation = validation,
                !.linkedAtValidation = base.polymarketAccountId,
                !.pc = IF code = "ok" THEN "placeTrade" ELSE "done",
                !.reply = IF code = "ok" THEN "none" ELSE code,
                !.tradeRequest =
                    IF code = "ok"
                    THEN buildTradeRequest(route.agentOutput, identity, resolvedMarket, nowMs)
                    ELSE NoTradeRequest,
                !.builtAtMs = IF code = "ok" THEN nowMs ELSE 0,
                !.settled = IF code = "ok" THEN "pending" ELSE "resolved"]
          /\ validations' = validations \cup
                {[seq |-> route.seq, agentOutput |-> route.agentOutput,
                  context |-> context, result |-> validation]}
    /\ UNCHANGED <<linkVars, write, parse, spendLedger, spend, executedCents, lastRequest,
                   placedOrders, gatewayVars,
                   authVars>>

\* handleWrite: getMarketById or buildValidationContext rejects.
RouteValidateFails(failure) ==
    /\ route.pc = "validate"
    /\ route' = [route EXCEPT !.pc = "done", !.settled = routeMessageSettles(failure)]
    /\ UNCHANGED <<linkVars, write, parse, spendLedger, spend, executedCents, lastRequest,
                   validations, placedOrders, gatewayVars,
                   authVars>>

\* handleWrite: trader.placeTrade(tradeRequest), which calls the gateway.
RoutePlaceTrade(clob) ==
    /\ route.pc = "placeTrade"
    /\ LET payload == [discordUserId |-> "null",
                       marketId |-> route.tradeRequest.market.id,
                       outcome |-> route.tradeRequest.outcome,
                       amountCents |-> route.tradeRequest.amountCents,
                       idempotencyKey |-> route.tradeRequest.idempotencyKey]
           gatewayOutcome == executeTradeForAccount(payload, clob)
           tradeResult == placeTrade(route.tradeRequest, gatewayOutcome)
       IN /\ route' = [route EXCEPT
                !.gatewayOutcome = gatewayOutcome,
                !.tradeResult = tradeResult,
                !.pc = "done",
                !.settled = "resolved",
                !.reply = IF tradeResult.ok THEN "trade_placed" ELSE tradeResult.errorCode]
          /\ executedCents' =
                IF tradeResult.ok
                THEN [executedCents EXCEPT ![route.discordUserId] = @ + tradeResult.amountCents]
                ELSE executedCents
          /\ placedOrders' =
                IF gatewayOutcome = "filled"
                THEN placedOrders \cup
                        {[seq |-> route.seq, idempotencyKey |-> payload.idempotencyKey]}
                ELSE placedOrders
    /\ UNCHANGED <<linkVars, write, parse, spendLedger, spend, lastRequest, validations, gatewayVars,
                   authVars>>

\* routeMessage has returned its reply.
RouteReturn ==
    /\ route.pc = "done"
    /\ route' = [NoRoute EXCEPT !.seq = route.seq]
    /\ lastRequest' =
          IF route.tradeRequest # NoTradeRequest
          THEN [tradeRequest |-> route.tradeRequest, builtAtMs |-> route.builtAtMs]
          ELSE lastRequest
    /\ UNCHANGED <<linkVars, write, parse, spendLedger, spend, executedCents, validations,
                   placedOrders, gatewayVars,
                   authVars>>

NextTrade ==
    \/ \E d \in BucketSteps : Tick(d)
    \/ \E u \in Users, m \in Messages, failure \in ReadCollaborators \cup {"none"} :
          RouteMessage(u, m, failure)
    \/ \E parsed \in RawOutputs : RouteParseIntent(parsed)
    \/ \E resolvedMarket \in ResolvedMarkets("m1") : RouteValidate(resolvedMarket)
    \/ \E failure \in WriteCollaborators : RouteValidateFails(failure)
    \/ \E clob \in ClobOutcomes : RoutePlaceTrade(clob)
    \/ RouteReturn

SpecTrade == InitTrade /\ [][NextTrade]_vars

-----------------------------------------------------------------------------
(* parseIntent calls *)

\* parseIntent up to the request: an empty message or a missing API key is
\* answered null before anything is sent.
ParseIntentStart(rawMessage, userId, apiKey) ==
    /\ parse.pc = "idle"
    /\ parse' = IF trim(rawMessage) = "" \/ apiKey \in {"undefined", ""}
                THEN [NoParse EXCEPT !.pc = "done", !.rawMessage = rawMessage,
                                     !.userId = userId, !.apiKey = apiKey,
                                     !.result = ParseNull, !.settled = "resolved"]
                ELSE [NoParse EXCEPT !.pc = "fetch", !.rawMessage = rawMessage,
                                     !.userId = userId, !.apiKey = apiKey]
    /\ UNCHANGED <<linkVars, write, tradeVars, authVars>>

\* parseIntent from the response on: the try block, whose catch returns null.
ParseIntentFetch(fetched) ==
    /\ parse.pc = "fetch"
    /\ parse' = [parse EXCEPT !.pc = "done", !.response = fetched,
                              !.result = parseIntentTry(fetched, parse.userId),
                              !.settled = parseIntentSettles(fetched)]
    /\ UNCHANGED <<linkVars, write, tradeVars, authVars>>

ParseIntentReturn ==
    /\ parse.pc = "done"
    /\ parse' = NoParse
    /\ UNCHANGED <<linkVars, write, tradeVars, authVars>>

NextParse ==
    \/ \E rawMessage \in RawMessages, userId \in Users, apiKey \in ApiKeys :
          ParseIntentStart(rawMessage, userId, apiKey)
    \/ /\ parse.pc = "fetch"
       /\ \E fetched \in Responses : ParseIntentFetch(fetched)
    \/ ParseIntentReturn

SpecParse == Init /\ [][NextParse]_vars

-----------------------------------------------------------------------------
(* Auth server: /api/session, /api/verify, /api/setup-trading *)

SESSION_TTL_MS == 600000

\* The clock advances to a session's expiry instant or just past it.
SessionSteps == {SESSION_TTL_MS, SESSION_TTL_MS + 1}

SessionIds == 1..MaxSessions

NoSession ==
    [sessionId |-> 0, discordUserId |-> "null", nonce |-> NoNonce,
     challengeMessage |-> NoMessage, expiresAtMs |-> 0, used |-> FALSE]

\* POST /api/session: the LinkSession it stores.
newSession(sessionId, discordUserId, now) ==
    [sessionId |-> sessionId,
     discordUserId |-> discordUserId,
     nonce |-> sessionId,
     challengeMessage |->
         [discordUserId |-> discordUserId, nonce |-> sessionId,
          expiresAtMs |-> now + SESSION_TTL_MS],
     expiresAtMs |-> now + SESSION_TTL_MS,
     used |-> FALSE]

\* Faulty variant: expiry is left to the purge timer.
sessionStatus_sweepOnly(session, now) ==
    IF session = NoSession THEN 404
    ELSE IF session.used THEN 410
    ELSE 200

\* Faulty variant: a used session is served again.
sessionStatus_reusable(session, now) ==
    IF session = NoSession THEN 404
    ELSE IF session.expiresAtMs < now THEN 410
    ELSE 200

\* The checks /api/challenge, /api/verify and /api/setup-trading make on the
\* session.
sessionStatus(session, now) ==
    IF session = NoSession THEN 404
    ELSE IF session.used THEN 410
    ELSE IF session.expiresAtMs < now THEN 410
    ELSE 200

\* /api/verify up to session.used = true: the status it answers with, 200
\* when it goes on to persist.
apiVerifyStatus(session, signature, walletAddress, now) ==
    IF sessionStatus(session, now) # 200 THEN sessionStatus(session, now)
    ELSE LET recovered == recoverSigner(session.challengeMessage, signature) IN
         IF recovered = "error" THEN 400
         ELSE IF toLowerCase(recovered) # toLowerCase(walletAddress) THEN 400
         ELSE 200

\* Signatures a web page can post for a session: by either wallet over the
\* session's challenge message or over some other text, or a malformed one.
SessionSignatures(session) ==
    {MalformedSignature} \cup
    {[signer |-> w, message |-> m] :
        w \in Wallets, m \in {session.challengeMessage, NoMessage}}

\* The auth server is up and nobody has linked an account.
InitAuth ==
    /\ InitLink
    /\ write = NoWrite
    /\ parse = NoParse
    /\ InitTradeVars
    /\ InitAuthVars

\* POST /api/session
ApiSession(discordUserId) ==
    /\ nextSessionId <= MaxSessions
    /\ sessions' = MapSet(sessions, nextSessionId,
                          newSession(nextSessionId, discordUserId, nowMs))
    /\ nextSessionId' = nextSessionId + 1
    /\ response' = [path |-> "/api/session", status |-> 200, sessionId |-> nextSessionId]
    /\ UNCHANGED <<linkVars, write, parse, tradeVars, persisted, markedUsed>>

\* GET /api/challenge/:sessionId
ApiChallenge(sessionId) ==
    /\ response' = [path |-> "/api/challenge",
                    status |-> sessionStatus(MapGet(sessions, sessionId, NoSession), nowMs),
                    sessionId |-> sessionId]
    /\ UNCHANGED <<linkVars, write, parse, tradeVars, sessions, nextSessionId, persisted,
                   markedUsed>>

\* POST /api/verify
ApiVerify(sessionId, signature, walletAddress, polymarketAddress) ==
    LET session == MapGet(sessions, sessionId, NoSession)
        status == apiVerifyStatus(session, signature, walletAddress, nowMs)
    IN /\ response' = [path |-> "/api/verify", status |-> status, sessionId |-> sessionId]
       /\ IF status = 200
          THEN /\ sessions' = MapSet(sessions, sessionId, [session EXCEPT !.used = TRUE])
               /\ markedUsed' = markedUsed \cup {sessionId}
               /\ links' = link(links, session.discordUserId,
                                toLowerCase(polymarketAddress), nowMs)
               /\ linkedAccount' = [linkedAccount EXCEPT ![session.discordUserId] =
                                       toLowerCase(polymarketAddress)]
               /\ persisted' = persisted \cup
                     {[path |-> "/api/verify",
                       discordUserId |-> session.discordUserId,
                       accountId |-> toLowerCase(polymarketAddress),
                       signer |-> recoverSigner(session.challengeMessage, signature),
                       sessionOwner |-> session.discordUserId]}
          ELSE UNCHANGED <<sessions, markedUsed, links, linkedAccount, persisted>>
       /\ UNCHANGED <<byDiscordUserId, ownerByNonce, nowMs, ticks, nextNonce, calls,
                      issued, linkedCount, connect, shown, write, parse, tradeVars,
                      nextSessionId>>

\* POST /api/setup-trading; derived says whether the exchange derived API
\* credentials for the posted private key.
ApiSetupTrading(sessionId, proxyWallet, derived) ==
    LET session == MapGet(sessions, sessionId, NoSession)
        status == IF sessionStatus(session, nowMs) # 200 THEN sessionStatus(session, nowMs)
                  ELSE IF derived THEN 200
                  ELSE 400
    IN /\ response' = [path |-> "/api/setup-trading", status |-> status,
                       sessionId |-> sessionId]
       /\ sessions' = IF sessionStatus(session, nowMs) = 200
                      THEN MapSet(sessions, sessionId, [session EXCEPT !.used = TRUE])
                      ELSE sessions
       /\ markedUsed' = IF sessionStatus(session, nowMs) = 200
                        THEN markedUsed \cup {sessionId}
                        ELSE markedUsed
       /\ IF status = 200
          THEN /\ links' = link(links, session.discordUserId,
                                toLowerCase(proxyWallet), nowMs)
               /\ linkedAccount' = [linkedAccount EXCEPT ![session.discordUserId] =
                                       toLowerCase(proxyWallet)]
               /\ persisted' = persisted \cup
                     {[path |-> "/api/setup-trading",
                       discordUserId |-> session.discordUserId,
                       accountId |-> toLowerCase(proxyWallet),
                       signer |-> "null",
                       sessionOwner |-> session.discordUserId]}
          ELSE UNCHANGED <<links, linkedAccount, persisted>>
       /\ UNCHANGED <<byDiscordUserId, ownerByNonce, nowMs, ticks, nextNonce, calls,
                      issued, linkedCount, connect, shown, write, parse, tradeVars,
                      nextSessionId>>

\* The purge timer: sessions past their expiry are deleted.
PurgeSessions ==
    /\ \E e \in sessions : e.value.expiresAtMs < nowMs
    /\ sessions' = {e \in sessions : ~(e.value.expiresAtMs < nowMs)}
    /\ UNCHANGED <<linkVars, write, parse, tradeVars, nextSessionId, persisted, markedUsed,
                   response>>

NextAuth ==
    \/ \E d \in SessionSteps : Tick(d)
    \/ \E u \in Users : ApiSession(u)
    \/ \E sessionId \in SessionIds, walletAddress \in Wallets, polymarketAddress \in Accounts :
          \E signature \in SessionSignatures(MapGet(sessions, sessionId, NoSession)) :
             ApiVerify(sessionId, signature, walletAddress, polymarketAddress)
    \/ \E sessionId \in SessionIds, proxyWallet \in Accounts, derived \in BOOLEAN :
          ApiSetupTrading(sessionId, proxyWallet, derived)
    \/ \E sessionId \in SessionIds : ApiChallenge(sessionId)
    \/ PurgeSessions

SpecAuth == InitAuth /\ [][NextAuth]_vars

-----------------------------------------------------------------------------

TypeOK ==
    /\ nextNonce \in 1..(MaxNonces + 1)
    /\ ticks \in 0..MaxTicks
    /\ \A p \in Calls : calls[p].pc \in {"idle", "markUsed", "persist", "delete", "done"}
    /\ write.pc \in {"off", "parsed", "validated", "replied"}
    /\ route.pc \in {"idle", "parseIntent", "validate", "placeTrade", "done"}
    /\ route.seq \in 0..MaxMessages
    /\ \A u \in Users : executedCents[u] \in Nat
    /\ \A u \in Users, d \in Days : spendLedger[u][d] \in Nat
    /\ nextSessionId \in 1..(MaxSessions + 1)
    /\ \A e \in sessions : e.key \in SessionIds /\ e.value.used \in BOOLEAN

-----------------------------------------------------------------------------
(* Properties of SpecLink *)

\* A verify call whose verifyLink result has been computed and whose request
\* is still on record.
Checked(p) == calls[p].op = "verify" /\ calls[p].nonce # NoNonce

\* The call's signature is by the claimed account over the message of the
\* challenge that was issued with the call's nonce.
CorrectSignature(p) ==
    /\ calls[p].signature # MalformedSignature
    /\ calls[p].signature.message =
          buildSignedLinkMessage(IssuedChallenge(calls[p].nonce))
    /\ toLowerCase(calls[p].signature.signer) = toLowerCase(calls[p].polymarketAccountId)

Failing == {"CHALLENGE_INVALID", "SIGNATURE_MISMATCH"}

StoresUnchanged ==
    /\ byDiscordUserId' = byDiscordUserId
    /\ ownerByNonce' = ownerByNonce
    /\ links' = links

\* Some stored challenge goes from used = false to used = true in this step.
UsedFlips ==
    \E e \in byDiscordUserId' : \E f \in byDiscordUserId :
        /\ f.key = e.key
        /\ f.value.nonce = e.value.nonce
        /\ ~f.value.used
        /\ e.value.used

\* C1: for any nonce, among concurrent verifyLink calls carrying that nonce
\* and a valid signature at most one returns success; a nonce is never
\* consumed by two successful verifications.
C1_NonceConsumedAtMostOnce == \A n \in Nonces : linkedCount[n] <= 1

\* C2: a verifyLink that returns CHALLENGE_INVALID or SIGNATURE_MISMATCH
\* leaves the challenge store and the link store exactly as they were, and a
\* used flag goes from false to true only in a call that returns success.
C2_FailingVerifyChangesNothing ==
    [][/\ \A p \in Calls :
             /\ (calls[p].pc = "idle" /\ calls'[p].op = "verify"
                   /\ calls'[p].verification \in Failing) => StoresUnchanged
             /\ (calls[p].op = "verify" /\ calls[p].verification \in Failing
                   /\ calls'[p] # calls[p]) => StoresUnchanged
       /\ UsedFlips =>
             \E p \in Calls :
                 /\ calls[p].op = "verify"
                 /\ calls[p].verification = "ok"
                 /\ calls[p].pc = "markUsed"
                 /\ calls'[p].pc = "persist"]_vars

\* A verify with a wrong signature against the identity's live, unused
\* challenge has returned SIGNATURE_MISMATCH.
C2_Witness ==
    \E p \in Calls :
        /\ Checked(p)
        /\ calls[p].pc = "done"
        /\ calls[p].verification = "SIGNATURE_MISMATCH"
        /\ getActive(calls[p].discordUserId).nonce = calls[p].nonce
        /\ ~getActive(calls[p].discordUserId).used

\* C3: once an identity has been issued a second challenge, verifyLink with
\* the first challenge's nonce returns CHALLENGE_INVALID for every signature
\* and time; only the identity's most recently issued nonce can be verified.
C3_OnlyLatestNonceVerifies ==
    \A p \in Calls :
        (Checked(p) /\ ~calls[p].latestAtStart) =>
            calls[p].verification = "CHALLENGE_INVALID"

\* The first of an identity's two challenges, correctly signed and not yet
\* expired, has been refused.
C3_Witness ==
    \E p \in Calls :
        /\ Checked(p)
        /\ IssuedChallenge(calls[p].nonce).discordUserId = calls[p].discordUserId
        /\ calls[p].nonce # LatestNonce(calls[p].discordUserId)
        /\ CorrectSignature(p)
        /\ calls[p].nowMs <= IssuedChallenge(calls[p].nonce).expiresAtMs
        /\ calls[p].verification = "CHALLENGE_INVALID"

\* C4: a verifyLink that starts after a verifyLink with the same nonce has
\* succeeded returns CHALLENGE_INVALID whatever the signature and the time; a
\* verifyLink with a correct signature, at a time up to and including
\* expiresAtMs, on the identity's latest challenge while it is unused, returns
\* success.
C4_NoReplayAndTimelySuccess ==
    \A p \in Calls :
        Checked(p) =>
            /\ calls[p].consumedAtStart => calls[p].verification = "CHALLENGE_INVALID"
            /\ (/\ CorrectSignature(p)
                /\ calls[p].latestAtStart
                /\ ~calls[p].challenge.used
                /\ calls[p].nowMs <= IssuedChallenge(calls[p].nonce).expiresAtMs)
                  => calls[p].verification = "ok"

\* A correctly signed verify of the identity's latest nonce, within its
\* lifetime, has been refused because the nonce was already consumed.
C4_Witness ==
    \E p \in Calls :
        /\ Checked(p)
        /\ calls[p].consumedAtStart
        /\ calls[p].latestAtStart
        /\ CorrectSignature(p)
        /\ calls[p].nowMs <= IssuedChallenge(calls[p].nonce).expiresAtMs
        /\ calls[p].verification = "CHALLENGE_INVALID"

\* C5: isValid(challenge, nonce, nowMs) is true exactly when the challenge
\* is non-null, its nonce equals nonce, it is unused and nowMs <= expiresAtMs;
\* an issued challenge's expiresAtMs is its issue time plus 5 minutes.
C5_IsValidExactly ==
    /\ \A p \in Calls :
          Checked(p) =>
              ((calls[p].verification # "CHALLENGE_INVALID") <=>
                  (/\ calls[p].challenge # NoChallenge
                   /\ calls[p].challenge.nonce = calls[p].nonce
                   /\ ~calls[p].challenge.used
                   /\ calls[p].nowMs <= calls[p].challenge.expiresAtMs))
    /\ \A c \in issued : c.expiresAtMs = c.issuedAtMs + 5 * 60 * 1000

\* A challenge has been found valid at the very instant it expires.
C5_Witness ==
    \E p \in Calls :
        /\ Checked(p)
        /\ calls[p].verification # "CHALLENGE_INVALID"
        /\ calls[p].nowMs = calls[p].challenge.expiresAtMs

-----------------------------------------------------------------------------
(* Properties of SpecStore *)

\* C6: in every reachable state, under any interleaving of persistLink,
\* unlink and getLinkedAccount calls, each identity has at most one link.
C6_AtMostOneLinkPerIdentity ==
    \A e1 \in links : \A e2 \in links : e1.key = e2.key => e1 = e2

\* A persistLink has replaced an identity's link while an unlink of that
\* identity, begun under the old link, is still in flight.
C6_Witness ==
    \E p \in Calls : \E q \in Calls :
        /\ calls[p].op = "unlink"
        /\ calls[p].pc = "delete"
        /\ calls[q].op = "persistLink"
        /\ calls[q].pc = "done"
        /\ calls[q].discordUserId = calls[p].discordUserId
        /\ calls[q].polymarketAccountId # calls[p].priorAccount

\* C7: getLinkedAccount right after persistLink(identity, a) returns a, also
\* when the identity was linked to another account before, which is then no
\* longer linked to it; getLinkedAccount returns the account last persisted.
C7_PersistThenGetOverwrites ==
    \A p \in Calls :
        calls[p].pc = "done" =>
            /\ calls[p].op = "persistLink" =>
                  /\ getLinkedAccount(links, calls[p].discordUserId)
                        = calls[p].polymarketAccountId
                  /\ {e.value.accountId : e \in {f \in links : f.key = calls[p].discordUserId}}
                        = {calls[p].polymarketAccountId}
            /\ calls[p].op = "getLinkedAccount" =>
                  calls[p].reply = calls[p].priorAccount

\* persistLink(identity, b) has just returned for an identity that was linked
\* to a different account a.
C7_Witness ==
    \E p \in Calls :
        /\ calls[p].op = "persistLink"
        /\ calls[p].pc = "done"
        /\ calls[p].priorAccount = "0xaa"
        /\ calls[p].polymarketAccountId = "0xbb"
        /\ getLinkedAccount(links, calls[p].discordUserId) = "0xbb"

-----------------------------------------------------------------------------
(* Properties of SpecValidate *)

Linked == write.baseValidationContext.polymarketAccountId # NoAccount

AmountInOrderWindow ==
    /\ write.agentOutput.amountIsInteger
    /\ write.agentOutput.amountCents >= 1
    /\ write.agentOutput.amountCents >= write.baseValidationContext.minOrderCents
    /\ write.agentOutput.amountCents <= write.baseValidationContext.maxOrderCents

RemainingDailyCents ==
    write.baseValidationContext.dailyLimitCents
        - write.baseValidationContext.spentTodayCents

HourlyAllows ==
    write.baseValidationContext.spentThisHourCents + write.agentOutput.amountCents
        <= write.baseValidationContext.hourlyLimitCents

\* C9: validation of a place_bet intent returns the code of the first
\* failing check in the order ACCOUNT_NOT_CONNECTED, INVALID_MARKET,
\* MARKET_NOT_ACTIVE, INVALID_AMOUNT, LIMIT_EXCEEDED, and success only when
\* none fails; an unlinked identity gets ACCOUNT_NOT_CONNECTED whatever the
\* market and the amount.
C9_FirstFailingCheck ==
    write.pc = "validated" =>
        write.validation =
            IF ~Linked THEN "ACCOUNT_NOT_CONNECTED"
            ELSE IF write.resolvedMarket = NoMarket THEN "INVALID_MARKET"
            ELSE IF write.resolvedMarket.status # "active" THEN "MARKET_NOT_ACTIVE"
            ELSE IF ~AmountInOrderWindow THEN "INVALID_AMOUNT"
            ELSE IF RemainingDailyCents < write.agentOutput.amountCents \/ ~HourlyAllows
                 THEN "LIMIT_EXCEEDED"
            ELSE "ok"

\* An unlinked identity's bet on an unknown market with an amount that is not
\* positive has been answered ACCOUNT_NOT_CONNECTED.
C9_Witness ==
    /\ write.pc = "validated"
    /\ ~Linked
    /\ write.resolvedMarket = NoMarket
    /\ write.agentOutput.amountCents <= 0
    /\ write.validation = "ACCOUNT_NOT_CONNECTED"

\* C10 as stated: with a linked account and an active market, every
\* amountCents <= 0 is rejected with INVALID_AMOUNT, an amountCents equal to
\* the remaining daily budget is accepted when the hourly window allows it,
\* and that amount plus one cent is rejected with LIMIT_EXCEEDED.
C10_AsStated ==
    (/\ write.pc = "validated"
     /\ Linked
     /\ write.resolvedMarket.status = "active"
     /\ write.agentOutput.amountIsInteger) =>
        /\ write.agentOutput.amountCents <= 0 => write.validation = "INVALID_AMOUNT"
        /\ (write.agentOutput.amountCents = RemainingDailyCents /\ HourlyAllows)
              => write.validation = "ok"
        /\ write.agentOutput.amountCents = RemainingDailyCents + 1
              => write.validation = "LIMIT_EXCEEDED"

\* C10, amended: with a linked account and an active market, every
\* amountCents <= 0 is rejected with INVALID_AMOUNT; an amountCents that is
\* within the order-size window is accepted when it equals the remaining daily
\* budget and the hourly window allows it, and is rejected with LIMIT_EXCEEDED
\* when it is the remaining daily budget plus one cent.
C10_BudgetBoundary ==
    (/\ write.pc = "validated"
     /\ Linked
     /\ write.resolvedMarket.status = "active"
     /\ write.agentOutput.amountIsInteger) =>
        /\ write.agentOutput.amountCents <= 0 => write.validation = "INVALID_AMOUNT"
        /\ (AmountInOrderWindow /\ write.agentOutput.amountCents = RemainingDailyCents
              /\ HourlyAllows) => write.validation = "ok"
        /\ (AmountInOrderWindow /\ write.agentOutput.amountCents = RemainingDailyCents + 1)
              => write.validation = "LIMIT_EXCEEDED"

\* An amount equal to the whole remaining daily budget has been accepted.
C10_Witness ==
    /\ write.pc = "validated"
    /\ Linked
    /\ write.resolvedMarket.status = "active"
    /\ AmountInOrderWindow
    /\ write.agentOutput.amountCents = RemainingDailyCents
    /\ write.validation = "ok"

-----------------------------------------------------------------------------
(* Claims about the WRITE pipeline *)

\* The request being routed and the previously built request name the same
\* identity, market id, outcome and amountCents.
SameLogicalTrade ==
    /\ route.tradeRequest # NoTradeRequest
    /\ lastRequest.tradeRequest # NoTradeRequest
    /\ route.tradeRequest.identity = lastRequest.tradeRequest.identity
    /\ route.tradeRequest.market.id = lastRequest.tradeRequest.market.id
    /\ route.tradeRequest.outcome = lastRequest.tradeRequest.outcome
    /\ route.tradeRequest.amountCents = lastRequest.tradeRequest.amountCents

SameBucket ==
    route.builtAtMs \div TIME_BUCKET_MS = lastRequest.builtAtMs \div TIME_BUCKET_MS

\* C11: for the same identity, market id, outcome and amountCents, two
\* buildTradeRequest calls whose nowMs fall in the same 5-minute bucket
\* floor(nowMs / 300000) give the same idempotencyKey, and calls whose nowMs
\* fall in different buckets give different keys.
C11_IdempotencyKeyPerBucket ==
    SameLogicalTrade =>
        (SameBucket <=>
            route.tradeRequest.idempotencyKey = lastRequest.tradeRequest.idempotencyKey)

\* The same trade was built at 0 ms and again at 299999 ms, the last
\* millisecond of the same bucket, and got the same key.
C11_Witness ==
    /\ SameLogicalTrade
    /\ lastRequest.builtAtMs = 0
    /\ route.builtAtMs = TIME_BUCKET_MS - 1
    /\ route.tradeRequest.idempotencyKey = lastRequest.tradeRequest.idempotencyKey

\* The same trade was built at 0 ms and again at 300000 ms, the first
\* millisecond of the next bucket, and got a different key.
C11_WitnessNextBucket ==
    /\ SameLogicalTrade
    /\ lastRequest.builtAtMs = 0
    /\ route.builtAtMs = TIME_BUCKET_MS
    /\ route.tradeRequest.idempotencyKey # lastRequest.tradeRequest.idempotencyKey

HasTradeVerb(text) == \E i \in 1..Len(text) : text[i] \in {"buy", "bet", "sell", "place"}

HasMoneyReference(text) == \E i \in 1..Len(text) : text[i] = "$5"

\* C12: classify(text) answers WRITE exactly when the text holds both a
\* trade-action verb and a monetary amount reference, and READ for every
\* other text; it answers for every text.
C12_WriteIffVerbAndAmount ==
    route.pc # "idle" =>
        /\ route.pipeline \in {"READ", "WRITE"}
        /\ route.pipeline = "WRITE" <=>
              HasTradeVerb(route.message) /\ HasMoneyReference(route.message)

\* A message with a trade verb and no amount was classified READ.
C12_Witness ==
    /\ route.pc # "idle"
    /\ HasTradeVerb(route.message)
    /\ ~HasMoneyReference(route.message)
    /\ route.pipeline = "READ"

\* A message with a trade verb and an amount was classified WRITE.
C12_WitnessWrite ==
    /\ route.pc # "idle"
    /\ HasTradeVerb(route.message)
    /\ HasMoneyReference(route.message)
    /\ route.pipeline = "WRITE"

Parsed == route.pc \in {"validate", "placeTrade", "done"} /\ route.pipeline = "WRITE"

\* C13: parseIntent returns null whenever the userId the extractor echoes
\* differs from the caller's, and the identity in every TradeRequest is the
\* caller's discordUserId with the account linked to that caller.
C13_IdentityIsTheCallers ==
    /\ (Parsed /\ route.parsed.userId # route.discordUserId) =>
           route.agentOutput = NoRawOutput
    /\ route.tradeRequest # NoTradeRequest =>
           /\ route.tradeRequest.identity.discordUserId = route.discordUserId
           /\ route.tradeRequest.identity.polymarketAccountId # NoAccount
           /\ route.tradeRequest.identity.polymarketAccountId =
                  linkedAccount[route.discordUserId]

\* The extractor answered u2's message with a well-shaped bet in u1's name,
\* and parseIntent returned null.
C13_Witness ==
    /\ Parsed
    /\ route.discordUserId = "u2"
    /\ route.parsed.intent = "place_bet"
    /\ route.parsed.userId = "u1"
    /\ route.agentOutput = NoRawOutput
    /\ route.reply = "could_not_parse"

\* A request was built for u1 with u1's linked account.
C13_WitnessRequest ==
    /\ route.tradeRequest # NoTradeRequest
    /\ route.tradeRequest.identity = [discordUserId |-> "u1", polymarketAccountId |-> "0xaa"]

\* C15: for each user and day, the amountCents of the trades the WRITE
\* pipeline submitted and that succeeded sum to at most 500 cents.
C15_DailySpendWithinLimit ==
    \A u \in Users : executedCents[u] <= DAILY_LIMIT_CENTS

PlaceTradeInvoked == route.pc = "placeTrade" \/ route.gatewayOutcome # "none"

\* C16: trader.placeTrade is invoked only for a request that passed
\* validation in the same routing step: the parsed output is a non-null
\* place_bet, validateAgentOutput returned ok, the caller has a linked
\* account, and the market in the request is the resolved market, which was
\* checked active.
C16_PlaceTradeOnlyAfterValidation ==
    PlaceTradeInvoked =>
        /\ route.agentOutput # NoRawOutput
        /\ route.agentOutput.intent = "place_bet"
        /\ route.validation = "ok"
        /\ linkedAccount[route.discordUserId] # NoAccount
        /\ route.tradeRequest.identity.polymarketAccountId =
               linkedAccount[route.discordUserId]
        /\ route.resolvedMarket # NoMarket
        /\ route.resolvedMarket.status = "active"
        /\ route.tradeRequest.market = route.resolvedMarket
        /\ route.tradeRequest.amountCents = route.agentOutput.amountCents
        /\ route.tradeRequest.outcome = route.agentOutput.outcome

\* placeTrade has been invoked for u1's validated bet and the gateway
\* answered.
C16_Witness ==
    /\ route.gatewayOutcome # "none"
    /\ route.discordUserId = "u1"
    /\ route.validation = "ok"
    /\ route.resolvedMarket.status = "active"

GatewayErrors == {"ACCOUNT_NOT_CONNECTED", "INVALID_AMOUNT", "UPSTREAM_UNAVAILABLE"}

\* C17: placeTrade returns a successful TradeResult only when the gateway
\* call completed without error; when the gateway fails, it returns a
\* failure result that carries an error code.
C17_SuccessOnlyWhenGatewaySucceeded ==
    route.gatewayOutcome # "none" =>
        /\ route.tradeResult.ok <=> route.gatewayOutcome = "filled"
        /\ route.gatewayOutcome \in GatewayErrors =>
               /\ ~route.tradeResult.ok
               /\ route.tradeResult.errorCode # "none"

\* The gateway refused a validated 250-cent order and placeTrade returned a
\* failure.
C17_Witness ==
    /\ route.gatewayOutcome = "INVALID_AMOUNT"
    /\ route.tradeRequest.amountCents = 250
    /\ ~route.tradeResult.ok
    /\ route.tradeResult.errorCode = "UPSTREAM_UNAVAILABLE"

\* The gateway filled an order and placeTrade returned success.
C17_WitnessFilled ==
    /\ route.gatewayOutcome = "filled"
    /\ route.tradeResult.ok

-----------------------------------------------------------------------------
(* Claims about the challenge store under concurrency *)

\* C18: for every challenge, identified by its nonce, used is monotonic: no
\* sequence of issue, getActive, verifyLink and markUsed operations takes a
\* challenge with used = true to used = false.
C18_UsedIsMonotonic ==
    [][\A f \in byDiscordUserId : \A e \in byDiscordUserId' :
          (f.value.nonce = e.value.nonce /\ f.value.used) => e.value.used]_vars

\* Two verifyLink calls have both called markUsed with nonce 1 and the
\* challenge is still stored as used.
C18_Witness ==
    /\ linkedCount[1] = 2
    /\ \E e \in byDiscordUserId : e.value.nonce = 1 /\ e.value.used

\* C19: markUsed(nonce) sets used = true only on a challenge whose nonce
\* equals its argument; with the old nonce of a challenge that has since been
\* replaced it leaves the newer challenge's used flag false, also when the
\* issue came between a verifyLink's validity check and its markUsed.
C19_MarkUsedOnlyMatchingNonce ==
    [][\A p \in Calls :
          (calls[p].pc = "markUsed" /\ calls'[p].pc = "persist") =>
              \A f \in byDiscordUserId : \A e \in byDiscordUserId' :
                  (f.key = e.key /\ f.value.nonce = e.value.nonce
                   /\ ~f.value.used /\ e.value.used)
                      => e.value.nonce = calls[p].nonce]_vars

\* C20: under every interleaving of concurrent issue calls for the same
\* identity, the identity ends with exactly one active challenge, the one of
\* the last store write, and no nonce issued to it earlier is verifiable.
C20_LastIssueWins ==
    \A u \in Users :
        LatestNonce(u) # NoNonce =>
            /\ Cardinality({e \in byDiscordUserId : e.key = u}) = 1
            /\ \A e \in byDiscordUserId :
                  e.key = u =>
                      /\ e.value.nonce = LatestNonce(u)
                      /\ e.value.discordUserId = u
            /\ \A c \in issued :
                  (c.discordUserId = u /\ c.nonce # LatestNonce(u)) =>
                      /\ getActive(u).nonce # c.nonce
                      /\ \A p \in Calls :
                            (Checked(p) /\ calls[p].discordUserId = u
                             /\ calls[p].nonce = c.nonce /\ ~calls[p].latestAtStart)
                                => calls[p].verification # "ok"

\* u1 was issued nonces 1 and 2, holds the challenge with nonce 2 alone, and
\* a verify with nonce 1 and a correct signature was refused.
C20_Witness ==
    /\ \E c \in issued : c.discordUserId = "u1" /\ c.nonce = 1
    /\ \E c \in issued : c.discordUserId = "u1" /\ c.nonce = 2
    /\ {e.value.nonce : e \in {f \in byDiscordUserId : f.key = "u1"}} = {2}
    /\ \E p \in Calls :
          /\ Checked(p)
          /\ calls[p].discordUserId = "u1"
          /\ calls[p].nonce = 1
          /\ ~calls[p].latestAtStart
          /\ CorrectSignature(p)
          /\ calls[p].verification = "CHALLENGE_INVALID"

-----------------------------------------------------------------------------
(* Claims about the auth server *)

\* C14: every link ever persisted maps the identity to an account proven by
\* a valid signature from that same account over the identity's own unused,
\* unexpired challenge; neither /api/verify nor /api/setup-trading stores an
\* address that was not the recovered signer.
C14_PersistedAccountIsTheSigner ==
    \A r \in persisted :
        /\ r.signer \notin {"null", "error", "0xunrelated"}
        /\ r.accountId = toLowerCase(r.signer)
        /\ r.discordUserId = r.sessionOwner

\* As C14, for /api/verify alone.
C14_VerifyPersistsTheSigner ==
    \A r \in persisted :
        r.path = "/api/verify" => r.accountId = toLowerCase(r.signer)

\* As C14, for /api/setup-trading alone.
C14_SetupTradingPersistsASigner ==
    \A r \in persisted :
        r.path = "/api/setup-trading" => r.signer # "null"

-----------------------------------------------------------------------------
(* Claims about validation, routing and execution *)

C22_RouteMessageAlwaysResolves ==
    route.pc = "done" =>
        /\ route.settled = "resolved"
        /\ route.reply # "none"

\* C24: when the same logical trade is submitted twice within one 5-minute
\* bucket, so that both TradeRequests carry the same idempotencyKey, the
\* trader and the gateway place at most one order for that key.
C24_AtMostOneOrderPerKey ==
    \A a \in placedOrders : \A b \in placedOrders :
        a.idempotencyKey = b.idempotencyKey => a.seq = b.seq

\* C25: an AgentOutput whose intent is get_balance, get_trade_history or
\* query_market never leads to a trade: the validator rejects every variant
\* other than place_bet, and the WRITE handler returns without building a
\* TradeRequest or calling the trader.
C25_NonTradeIntentNeverTrades ==
    (Parsed /\ route.agentOutput.intent \in {"get_balance", "get_trade_history", "query_market"}) =>
        /\ route.pc = "done"
        /\ route.reply = "not_a_trade"
        /\ route.tradeRequest = NoTradeRequest
        /\ route.gatewayOutcome = "none"
        /\ \A o \in placedOrders : o.seq # route.seq
        /\ validateAgentOutput(route.agentOutput,
                               buildValidationContext(route.discordUserId)) # "ok"

\* u1, who has a linked account, asked for a trade history in a message that
\* was classified WRITE, and was answered without a trade.
C25_Witness ==
    /\ Parsed
    /\ route.discordUserId = "u1"
    /\ route.agentOutput.intent = "get_trade_history"
    /\ route.reply = "not_a_trade"
    /\ route.tradeRequest = NoTradeRequest

-----------------------------------------------------------------------------
(* Claims about the account-link commands *)

\* C26: markUsed is idempotent: for every store state and nonce, calling
\* markUsed(nonce) twice leaves the store as calling it once does, and
\* calling it with a nonce that was never issued changes nothing.
C26_MarkUsedIsIdempotent ==
    [][\A n \in Nonces :
          /\ (byDiscordUserId' = markUsed(n) /\ ownerByNonce' = ownerByNonce) =>
                 (markUsed(n))' = byDiscordUserId'
          /\ ~MapHas(ownerByNonce, n) => markUsed(n) = byDiscordUserId]_vars

\* markUsed has been called twice with the nonce of the one stored challenge,
\* which is stored as used, while nonce 2 was never issued.
C26_Witness ==
    /\ \E n \in Nonces :
          /\ linkedCount[n] = 2
          /\ \E e \in byDiscordUserId : e.value.nonce = n /\ e.value.used
    /\ Cardinality(byDiscordUserId) = 1
    /\ ~MapHas(ownerByNonce, 2)

-----------------------------------------------------------------------------
(* C23: a failed issue *)

\* The connect account command has just been answered and no challenge was
\* written for it.
ConnectFailedStep ==
    /\ connect' # connect
    /\ issued' = issued

-----------------------------------------------------------------------------
(* C27: the message shown and the message verified *)

\* A verifyLink call that found a valid challenge and went on to the signature.
CheckedSignature(p) ==
    /\ calls[p].op = "verify"
    /\ calls[p].nonce # NoNonce
    /\ calls[p].verification \in {"ok", "SIGNATURE_MISMATCH"}

\* C27: the message verifyLink rebuilds from the stored challenge is the message
\* connect account showed for that nonce, and whether the signature is accepted
\* is decided by that message alone: nothing else in the verify command can
\* stand in for it.
C27_VerifiedMessageIsTheShownMessage ==
    \A p \in Calls :
        CheckedSignature(p) =>
            /\ connect.ok => connect.message = shown[connect.nonce]
            /\ buildSignedLinkMessage(calls[p].challenge) = shown[calls[p].nonce]
            /\ calls[p].verification = "ok" <=>
                  /\ calls[p].signature # MalformedSignature
                  /\ calls[p].signature.message = shown[calls[p].nonce]
                  /\ toLowerCase(calls[p].signature.signer) =
                         toLowerCase(calls[p].polymarketAccountId)

\* A signature over the shown message was accepted.
C27_Witness ==
    \E p \in Calls :
        /\ CheckedSignature(p)
        /\ calls[p].verification = "ok"
        /\ calls[p].signature.message = shown[calls[p].nonce]
        /\ shown[calls[p].nonce] # NoMessage

\* A signature by the claimed account over another text was turned down.
C27_WitnessOtherText ==
    \E p \in Calls :
        /\ CheckedSignature(p)
        /\ calls[p].verification = "SIGNATURE_MISMATCH"
        /\ calls[p].signature # MalformedSignature
        /\ toLowerCase(calls[p].signature.signer) = toLowerCase(calls[p].polymarketAccountId)
        /\ calls[p].signature.message # shown[calls[p].nonce]

-----------------------------------------------------------------------------
(* C28: persisting the link in the verify command *)

\* handleVerify's call of persistLink returns in this step.
PersistStep(p) ==
    /\ calls[p].op = "verify"
    /\ calls[p].pc = "persist"
    /\ calls'[p].pc = "done"

\* The verify command of slot p finishes in this step.
VerifyFinishes(p) ==
    /\ calls'[p].op = "verify"
    /\ calls'[p].pc = "done"
    /\ calls[p].pc # "done"

\* C28: in the verify command persistLink is called only after verifyLink
\* succeeded, and for that call's identity and claimed account; the link store
\* changes at no other point; 'connected successfully' is replied only when
\* persistLink stored that very link; and a command that ends any other way
\* (verification failed, or the link could not be saved) leaves the account
\* linked before as it was.
C28_PersistOnlyAfterVerification ==
    [][\A p \in Calls :
          /\ PersistStep(p) => calls[p].verification = "ok"
          /\ links' # links =>
                \E q \in Calls :
                    /\ PersistStep(q)
                    /\ links' = link(links, calls[q].discordUserId,
                                     calls[q].polymarketAccountId, nowMs)
          /\ (VerifyFinishes(p) /\ calls'[p].reply = "connected") =>
                /\ PersistStep(p)
                /\ links' = link(links, calls[p].discordUserId,
                                 calls[p].polymarketAccountId, nowMs)
                /\ getLinkedAccount(links', calls[p].discordUserId) =
                       calls[p].polymarketAccountId
          /\ (VerifyFinishes(p) /\ calls'[p].reply # "connected") =>
                /\ links' = links
                /\ linkedAccount' = linkedAccount]_vars

\* A verified link was stored and reported.
C28_Witness ==
    \E p \in Calls :
        /\ calls[p].op = "verify"
        /\ calls[p].pc = "done"
        /\ calls[p].reply = "connected"
        /\ getLinkedAccount(links, calls[p].discordUserId) = calls[p].polymarketAccountId

\* A verified link for another account could not be saved: the account linked
\* before is still the linked one.
C28_WitnessNotSaved ==
    \E p \in Calls :
        /\ calls[p].op = "verify"
        /\ calls[p].pc = "done"
        /\ calls[p].reply = "not_saved"
        /\ getLinkedAccount(links, calls[p].discordUserId) # NoAccount
        /\ getLinkedAccount(links, calls[p].discordUserId) # calls[p].polymarketAccountId

\* A verification failed while an account was linked.
C28_WitnessVerificationFailed ==
    \E p \in Calls :
        /\ calls[p].op = "verify"
        /\ calls[p].pc = "done"
        /\ calls[p].reply = "SIGNATURE_MISMATCH"
        /\ getLinkedAccount(links, calls[p].discordUserId) # NoAccount
        /\ getLinkedAccount(links, calls[p].discordUserId) # calls[p].polymarketAccountId

-----------------------------------------------------------------------------
(* C29: a wrong signature does not consume the challenge *)

\* verifyLink returns SIGNATURE_MISMATCH to the call of slot p in this step.
MismatchStep(p) ==
    /\ calls[p].pc = "idle"
    /\ calls'[p].op = "verify"
    /\ calls'[p].verification = "SIGNATURE_MISMATCH"

\* verifyLink(u, a, n, s) would succeed now.
WouldVerify(u, a, n, s) == verifyLinkCheck(getActive(u), n, a, s, nowMs) = "ok"

\* C29: a verifyLink that fails with SIGNATURE_MISMATCH leaves the challenge
\* store as it was, so every verifyLink that would have succeeded before it,
\* with the right signature and not after expiresAtMs, still succeeds after it.
C29_MismatchDoesNotBurn ==
    [][\A p \in Calls :
          /\ (calls[p].pc = "markUsed" /\ byDiscordUserId' # byDiscordUserId) =>
                calls[p].verification = "ok"
          /\ MismatchStep(p) =>
              /\ calls'[p].pc = "done"
              /\ byDiscordUserId' = byDiscordUserId
              /\ ownerByNonce' = ownerByNonce
              /\ \A u \in Users, a \in Accounts, n \in Nonces :
                    \A s \in SignaturesFor(n) :
                        WouldVerify(u, a, n, s) => WouldVerify(u, a, n, s)']_vars

\* A wrong signature was turned down and the right one would be accepted for
\* the same challenge.
C29_Witness ==
    \E p \in Calls :
        /\ calls[p].op = "verify"
        /\ calls[p].verification = "SIGNATURE_MISMATCH"
        /\ calls[p].pc = "done"
        /\ \E a \in Accounts, s \in SignaturesFor(calls[p].nonce) :
              WouldVerify(calls[p].discordUserId, a, calls[p].nonce, s)

-----------------------------------------------------------------------------
(* C30: expiry is enforced on read *)

SessionOf(sessionId) == MapGet(sessions, sessionId, NoSession)

\* The session is still in the map although its expiry has passed.
ExpiredUnswept(sessionId) ==
    /\ SessionOf(sessionId) # NoSession
    /\ SessionOf(sessionId).expiresAtMs < nowMs

\* C30: a session past its expiry is rejected by the request that reads it,
\* whether or not the purge timer has removed it: it is never marked used and
\* nothing is persisted for it, and the answer is 410 while it is still in the
\* map; a link is written only for a session that is present, unused and not
\* expired at that moment; and the purge removes only expired sessions.
C30_ExpiryEnforcedOnRead ==
    [][/\ \A id \in SessionIds :
             /\ ExpiredUnswept(id) =>
                   /\ MapGet(sessions', id, NoSession) \in {SessionOf(id), NoSession}
                   /\ (response' # response /\ response'.sessionId = id) =>
                          response'.status = 410
             /\ (MapHas(sessions, id) /\ ~MapHas(sessions', id)) => ExpiredUnswept(id)
             /\ (response' # response /\ response'.sessionId = id
                   /\ response'.path # "/api/session" /\ response'.status = 200) =>
                   /\ SessionOf(id) # NoSession
                   /\ ~(SessionOf(id).expiresAtMs < nowMs)
       /\ (links' # links \/ persisted' # persisted) =>
             \E id \in SessionIds :
                 /\ SessionOf(id) # NoSession
                 /\ ~SessionOf(id).used
                 /\ ~(SessionOf(id).expiresAtMs < nowMs)
                 /\ MapGet(sessions', id, NoSession) = [SessionOf(id) EXCEPT !.used = TRUE]
      ]_vars

\* An expired session that the purge has not removed was refused.
C30_Witness ==
    /\ response.path \in {"/api/verify", "/api/setup-trading"}
    /\ response.status = 410
    /\ ExpiredUnswept(response.sessionId)
    /\ ~SessionOf(response.sessionId).used

\* An expired session that the purge has removed was refused, and the purge
\* left a later session in place.
C30_WitnessSwept ==
    /\ response.path \in {"/api/verify", "/api/setup-trading"}
    /\ response.status = 404
    /\ response.sessionId < nextSessionId
    /\ \E id \in SessionIds : MapHas(sessions, id) /\ ~SessionOf(id).used

\* A session was accepted at its expiry instant.
C30_WitnessAtExpiry ==
    /\ response.path = "/api/verify"
    /\ response.status = 200
    /\ SessionOf(response.sessionId).expiresAtMs = nowMs

-----------------------------------------------------------------------------
(* C31: identities are independent *)

\* This step is an operation carried out for identity u: an issue, the start
\* of a verifyLink or an unlink, a markUsed, a persistLink or a store delete.
ActsFor(u) ==
    \/ \E c \in issued' \ issued : c.discordUserId = u
    \/ \E p \in Calls :
          /\ calls'[p].pc # calls[p].pc
          /\ \/ calls[p].pc = "idle" /\ calls'[p].discordUserId = u
             \/ calls[p].pc \in {"markUsed", "persist", "delete"}
                   /\ calls[p].discordUserId = u

\* A verifyLink call has succeeded with this nonce for this identity.
VerifiedWith(p) ==
    /\ calls[p].op = "verify"
    /\ calls[p].verification = "ok"
    /\ calls[p].pc = "markUsed"

\* C31: an operation for identity A (issue, verifyLink, markUsed, persistLink,
\* unlink) leaves the active challenge of every other identity B, its used
\* flag included, and B's linked account as they were; and a verifyLink for A
\* succeeds only with a nonce that was issued to A.
C31_IdentitiesAreIndependent ==
    [][\A A \in Users, B \in Users :
          /\ (A # B /\ ActsFor(A)) =>
                /\ getActive(B)' = getActive(B)
                /\ getLinkedAccount(links, B)' = getLinkedAccount(links, B)
                /\ linkedAccount'[B] = linkedAccount[B]
          /\ \A p \in Calls :
                (VerifiedWith(p)' /\ calls'[p].discordUserId = A) =>
                    \E c \in issued' : c.nonce = calls'[p].nonce /\ c.discordUserId = A
      ]_vars

\* A's challenge was marked used by A's verify while B holds an unused active
\* challenge.
C31_Witness ==
    \E A \in Users, B \in Users :
        /\ A # B
        /\ getActive(A) # NoChallenge
        /\ getActive(A).used
        /\ getActive(B) # NoChallenge
        /\ ~getActive(B).used
        /\ \E p \in Calls : calls[p].op = "verify" /\ calls[p].pc = "persist"
                              /\ calls[p].discordUserId = A

\* A disconnected while B stays linked.
C31_WitnessUnlink ==
    \E A \in Users, B \in Users, p \in Calls :
        /\ A # B
        /\ calls[p].op = "unlink"
        /\ calls[p].pc = "done"
        /\ calls[p].reply = "ok"
        /\ calls[p].discordUserId = A
        /\ getLinkedAccount(links, A) = NoAccount
        /\ getLinkedAccount(links, B) # NoAccount

\* A tried B's nonce and was refused.
C31_WitnessForeignNonce ==
    \E p \in Calls :
        /\ calls[p].op = "verify"
        /\ calls[p].pc = "done"
        /\ calls[p].verification = "CHALLENGE_INVALID"
        /\ getActive(calls[p].discordUserId) # NoChallenge
        /\ isValid(getActive(calls[p].discordUserId),
                   getActive(calls[p].discordUserId).nonce, nowMs)
        /\ \E c \in issued : c.nonce = calls[p].nonce
                               /\ c.discordUserId # calls[p].discordUserId

-----------------------------------------------------------------------------
(* C32: trySpend *)

\* A trySpend call is answered in this step.
TrySpendStep ==
    /\ spend'.op = "trySpend"
    /\ \/ spend' # spend
       \/ spendLedger' # spendLedger

\* C32: trySpend returns true exactly when the user's spend for today plus
\* amountCents is at most 500, then adds amountCents to the user's bucket for
\* the day and touches no other user; otherwise it returns false and today's
\* spend is as it was. After every step no user's spend for any day exceeds
\* DAILY_LIMIT_CENTS and getRemainingToday is not negative.
C32_TrySpendChecksAndRecords ==
    [][/\ TrySpendStep =>
             /\ spend'.spentBefore = spendLedger[spend'.discordUserId][spend'.dayAtCheck]
             /\ spend'.result <=> spend'.spentBefore + spend'.amountCents <= 500
             /\ spend'.result =>
                   spendLedger'[spend'.discordUserId][spend'.dayAtRecord] =
                       spendLedger[spend'.discordUserId][spend'.dayAtRecord]
                           + spend'.amountCents
             /\ ~spend'.result =>
                   /\ spend'.dayAtRecord = spend'.dayAtCheck
                   /\ spendLedger'[spend'.discordUserId][spend'.dayAtCheck] =
                          spend'.spentBefore
             /\ \A u \in Users \ {spend'.discordUserId} : spendLedger'[u] = spendLedger[u]
       /\ \A u \in Users :
             /\ \A d \in Days : spendLedger'[u][d] <= DAILY_LIMIT_CENTS
             /\ getSpentToday(u)' <= DAILY_LIMIT_CENTS
             /\ getRemainingToday(u)' >= 0
             /\ getRemainingToday(u)' = DAILY_LIMIT_CENTS - getSpentToday(u)'
      ]_vars

\* A spend that brings the day to exactly the limit was accepted.
C32_Witness ==
    /\ spend.op = "trySpend"
    /\ spend.result
    /\ spend.spentBefore = 250
    /\ spend.amountCents = 250
    /\ spendLedger[spend.discordUserId][spend.dayAtRecord] = DAILY_LIMIT_CENTS

\* A spend that would pass the limit by one cent was refused.
C32_WitnessRefused ==
    /\ spend.op = "trySpend"
    /\ ~spend.result
    /\ spend.spentBefore + spend.amountCents = DAILY_LIMIT_CENTS + 1
    /\ spend.spentBefore > 0

\* Midnight passed between the check and the record.
C32_WitnessMidnight ==
    /\ spend.op = "trySpend"
    /\ spend.result
    /\ spend.dayAtRecord # spend.dayAtCheck
    /\ spend.spentBefore > 0

-----------------------------------------------------------------------------
(* C33: a link session is used once *)

\* A request that names this session is answered in this step.
AnswersFor(sessionId) ==
    /\ response' # response
    /\ response'.sessionId = sessionId
    /\ response'.path \in {"/api/challenge", "/api/verify", "/api/setup-trading"}

\* Nothing is persisted in this step.
NothingPersisted ==
    /\ persisted' = persisted
    /\ links' = links
    /\ linkedAccount' = linkedAccount

C33_WitnessPurged ==
    /\ response.sessionId \in markedUsed
    /\ response.status = 404
    /\ SessionOf(response.sessionId) = NoSession

\* A wrong signature was refused and the session is still unused.
C33_WitnessBadSignature ==
    /\ response.path = "/api/verify"
    /\ response.status = 400
    /\ SessionOf(response.sessionId) # NoSession
    /\ ~SessionOf(response.sessionId).used
    /\ persisted = {}

-----------------------------------------------------------------------------
(* C34: the leader's client is not used for a user's trade *)

\* The call in flight has posted an order to the exchange.
OrderPosted ==
    /\ trade.pc = "done"
    /\ trade.result \in {"filled", "UPSTREAM_UNAVAILABLE"}

\* C34: a trade whose params carry a discordUserId is never posted with the
\* leader's client: when getClobClientForUser fell back to the leader (no
\* credential store, no stored credentials, or a failed lookup) the call ends
\* with ACCOUNT_NOT_CONNECTED and no order is posted.
C34_LeaderClientNeverUsedForUser ==
    trade.pc = "done" =>
        /\ (OrderPosted /\ trade.discordUserId # "null") =>
              /\ trade.client.kind = "user"
              /\ ~trade.isLeader
        /\ (trade.discordUserId # "null" /\ trade.client = leaderClobClient) =>
              /\ trade.fallback \in {"no_store", "no_credentials", "lookup_error"}
              /\ trade.result = "ACCOUNT_NOT_CONNECTED"

\* A user without stored credentials was refused.
C34_Witness ==
    /\ trade.pc = "done"
    /\ trade.discordUserId # "null"
    /\ trade.fallback = "no_credentials"
    /\ trade.amountCents >= POLYMARKET_MIN_ORDER_CENTS
    /\ trade.result = "ACCOUNT_NOT_CONNECTED"

\* A user was refused because the credential store is not configured.
C34_WitnessNoStore ==
    /\ trade.pc = "done"
    /\ trade.discordUserId # "null"
    /\ trade.fallback = "no_store"
    /\ trade.result = "ACCOUNT_NOT_CONNECTED"

\* A user with stored credentials was refused because the lookup failed.
C34_WitnessLookupError ==
    /\ trade.pc = "done"
    /\ trade.discordUserId # "null"
    /\ trade.fallback = "lookup_error"
    /\ credentials[trade.discordUserId] # NoCredentials
    /\ trade.result = "ACCOUNT_NOT_CONNECTED"

\* A user's order was posted with the user's own client.
C34_WitnessPosted ==
    /\ OrderPosted
    /\ trade.discordUserId # "null"
    /\ trade.client.kind = "user"

-----------------------------------------------------------------------------
(* C35: the client cache after new credentials *)

\* C35: a trade that starts after saveCredentials and evictUserClient have
\* completed for its user, and that goes out with a user client, uses a
\* client built from the credentials stored when it started, or newer.
C35_TradeAfterSetupUsesNewCredentials ==
    (trade.pc \in {"resolved", "done"} /\ trade.afterSetup /\ trade.client.kind = "user") =>
        trade.client.credentials >= trade.credsAtStart

\* The same for the cache: with no setup and no lookup in flight, a fresh
\* cached client is built from the stored credentials.
C35_CacheHoldsStoredCredentials ==
    \A u \in Users :
        (setup.pc = "idle" /\ trade.pc = "idle" /\ cacheHit(userClientCache[u], nowMs)) =>
            userClientCache[u].client.credentials = credentials[u]

-----------------------------------------------------------------------------
(* C36: a READ message stays on the READ path *)

\* C36: for a message classified READ the router goes to handleRead only: the
\* intent parser, the validator, the request assembler and trader.placeTrade
\* are not called for it, and while it is handled no link, challenge or spend
\* state changes.
C36_ReadNeverReachesWrite ==
    [][/\ route'.pipeline = "READ" =>
             /\ route'.pc = "done"
             /\ route'.reply \in {"read", "none"}
             /\ route'.parsed = NoRawOutput
             /\ route'.agentOutput = NoRawOutput
             /\ route'.validation = "none"
             /\ route'.tradeRequest = NoTradeRequest
             /\ route'.gatewayOutcome = "none"
             /\ route'.tradeResult = NoTradeResult
             /\ \A v \in validations' : v.seq # route'.seq
             /\ \A o \in placedOrders' : o.seq # route'.seq
       /\ (route.pipeline = "READ" \/ route'.pipeline = "READ") =>
             UNCHANGED <<byDiscordUserId, ownerByNonce, links, linkedAccount,
                         spendLedger, executedCents, validations, placedOrders>>
      ]_vars

\* A message with a trade verb but no amount was answered by the READ handler.
C36_Witness ==
    /\ route.pipeline = "READ"
    /\ route.pc = "done"
    /\ route.reply = "read"
    /\ \E i \in DOMAIN route.message : route.message[i] \in TradeVerbs

\* The READ handler failed for a READ message.
C36_WitnessFailed ==
    /\ route.pipeline = "READ"
    /\ route.pc = "done"
    /\ route.settled = "rejected"

-----------------------------------------------------------------------------
(* C37: parseIntent is fail-closed *)

\* One variant of the request's JSON schema: the properties a key may be, the
\* keys that are required, and no additional property.
SchemaObject(value, intent, properties, required) ==
    /\ value.intent = JsonString(intent)
    /\ ObjectKeys(value) \subseteq properties
    /\ required \subseteq ObjectKeys(value)
    /\ \A key \in ObjectKeys(value) \cap {"userId", "marketId", "query", "rawText"} :
          value[key].type = "string"
    /\ \A key \in ObjectKeys(value) \cap {"amountCents", "limit"} :
          value[key].type = "number"
    /\ "outcome" \in ObjectKeys(value) => value.outcome.val \in {"YES", "NO"}

\* The four supported intent variants, as the schema sent with the request
\* lists them.
SupportedVariant(json) ==
    /\ json.kind = "object"
    /\ \/ SchemaObject(json.fields, "place_bet",
             {"intent", "userId", "marketId", "outcome", "amountCents", "rawText"},
             {"intent", "userId", "marketId", "outcome", "amountCents"})
       \/ SchemaObject(json.fields, "get_balance",
             {"intent", "userId", "rawText"}, {"intent", "userId"})
       \/ SchemaObject(json.fields, "get_trade_history",
             {"intent", "userId", "limit", "rawText"}, {"intent", "userId"})
       \/ SchemaObject(json.fields, "query_market",
             {"intent", "userId", "marketId", "query", "rawText"}, {"intent", "userId"})

\* The failures the parser answers with null.
ParseFailure ==
    \/ trim(parse.rawMessage) = ""
    \/ parse.apiKey \in {"undefined", ""}
    \/ parse.response.fetch # "ok"
    \/ parse.response.content.text # "json"
    \/ parse.response.content.json.kind = "null"
    \/ ~SupportedVariant(parse.response.content.json)

\* C37: parseIntent never throws; an empty message, a missing API key, a
\* non-2xx response, empty or malformed content, an explicit null, a value that
\* is not exactly one of the four variants (extra keys included) and a network
\* error all give null; a non-null result is the value that was received, and
\* that value is one of the four variants.
C37_ParseIntentFailsClosed ==
    parse.pc = "done" =>
       /\ parse.settled = "resolved"
       /\ ParseFailure => parse.result = ParseNull
       /\ parse.result # ParseNull =>
             /\ SupportedVariant(parse.response.content.json)
             /\ parse.result = parse.response.content.json

\* A well-formed place_bet for the caller came back as the result.
C37_Witness ==
    /\ parse.pc = "done"
    /\ parse.result # ParseNull
    /\ parse.result.fields.intent = JsonString("place_bet")

\* An object with a key no variant has was answered null.
C37_WitnessExtraKey ==
    /\ parse.pc = "done"
    /\ parse.response.fetch = "ok"
    /\ parse.response.content.text = "json"
    /\ parse.response.content.json.kind = "object"
    /\ ObjectKeys(parse.response.content.json.fields) =
          {"intent", "userId", "extra"}
    /\ parse.response.content.json.fields.intent = JsonString("get_balance")
    /\ parse.response.content.json.fields.userId = JsonString(parse.userId)
    /\ parse.result = ParseNull

\* A network error was answered null.
C37_WitnessNetworkError ==
    /\ parse.pc = "done"
    /\ parse.response.fetch = "networkError"
    /\ parse.result = ParseNull

\* A well-formed value naming another user was answered null.
C37_WitnessOtherUser ==
    /\ parse.pc = "done"
    /\ SupportedVariant(parse.response.content.json)
    /\ parse.response.content.json.fields.userId # JsonString(parse.userId)
    /\ parse.result = ParseNull

====
